---- MODULE Spec2Model ----
(***************************************************************************)
(* The value/heap layer of starlark-rust: the freeze engine and the trace  *)
(* engine of values/layout/avalue.rs over a heap of tuples, lists, arrays, *)
(* Complex and Simple payloads.                                            *)
(*                                                                         *)
(* The recursion of heap_freeze / heap_copy is unfolded into an explicit   *)
(* stack of activation frames; one action is one straight-line piece of a  *)
(* heap_freeze / heap_copy body between two recursive calls.               *)
(***************************************************************************)
EXTENDS Integers, Sequences, FiniteSets, TLC

(* Bounds of the model: the number of records the mutable arena holds, and *)
(* the number of element cells those records hold in total (so also the    *)
(* longest tuple, array or field list).                                    *)
MaxHeap == 3
MaxRefs == 2

\* The number of allocation calls the allocation log holds.
MaxAllocs == 4

\* The largest capacity an Array is made with, the number of iterators made
\* over it, and the longest sequence given to extend or extend_from_slice.
MaxCap == 2
MaxIters == 2
MaxItems == 2
MaxSlots == 3
MaxNum == 3
MaxThreads == 2

\* The depth of the call stack at which CallStack::push fails.
MaxFrames == 3

\* The number of strings eval_function allocates for the names of named
\* arguments before the model stops calling it with named arguments.
MaxStrs == 2

\* Recursion depth at which the model stops entering new activations.  The
\* code as written never gets there: the caller's frame plus one activation
\* per record is at most MaxHeap + 1 frames.
MaxDepth == MaxHeap + 2

VARIABLES
    heap,        \* the mutable arena: sequence of records (header + payload)
    orig,        \* the mutable arena as it was before the pass started
    frozen,      \* the frozen arena of the Freezer: sequence of records
    stack,       \* activations of heap_freeze / heap_copy, innermost last
    pc,          \* "eval" | "run" | "unwind" (an Err is travelling up) | "done"
    result,      \* what the whole pass returned to its caller
    frozen_defs, \* Freezer::frozen_defs
    entered,     \* address -> number of heap_freeze / heap_copy activations
    returned,    \* address -> "none" | "ok" | "err": what heap_freeze returned
    errStack,    \* addresses with an activation open when the Err was raised
    tospace,     \* the arena a Tracer copies into: sequence of records
    allocs,      \* the allocation calls made so far, with what each returned
    array,       \* an Array of its own: len, capacity, iter_count and cells
    iters,       \* the ArrayIters made over arr: cursor, and whether dropped
    debug,       \* whether debug assertions are compiled in
    slots,       \* a MutableSlots: the sequence of its slots
    frozen_slots, \* the FrozenSlots that freezing slots has produced
    last_set,    \* slot index -> the value of the last set_slot that returned
    borrow,      \* the RefCell of slots: a RefMut is alive; one has written
    nums,        \* the Nums hashed last, each with its hash
    threads,     \* the threads sharing the static empty array: their calls
    evaluator,   \* an Evaluator: call stack, def_info and where eval_module is
    call         \* the last operation called on a unit, and how it ended

\* The state of the heap, its freezer and its tracer.
heapVars == <<heap, orig, frozen, stack, pc, result, frozen_defs, entered,
              returned, errStack, tospace, allocs>>

\* The state of the units that stand apart from the heap.
arrayVars == <<array, iters, debug>>
slotVars == <<slots, frozen_slots, last_set, borrow>>
moreVars == <<threads, evaluator>>
unitVars == <<arrayVars, slotVars, nums, call, moreVars>>

vars == <<heapVars, unitVars>>

(***************************************************************************)
(* Values: tagged references.                                              *)
(***************************************************************************)
Imm(n) == [tag |-> "int", a |-> n]
Mut(p) == [tag |-> "mut", a |-> p]
Frz(p) == [tag |-> "frozen", a |-> p]
\* A pointer into the arena a Tracer copies into.
New(p) == [tag |-> "new", a |-> p]
VALUE_EMPTY_TUPLE == [tag |-> "VALUE_EMPTY_TUPLE", a |-> 0]
VALUE_EMPTY_FROZEN_LIST == [tag |-> "VALUE_EMPTY_FROZEN_LIST", a |-> 0]
VALUE_EMPTY_ARRAY == [tag |-> "VALUE_EMPTY_ARRAY", a |-> 0]
\* A MaybeUninit cell nobody has written yet.
Uninit == [tag |-> "uninit", a |-> 0]
NoValue == [tag |-> "none", a |-> 0]

Ok(v) == [tag |-> "ok", val |-> v]
Err == [tag |-> "err", val |-> NoValue]
Pending == [tag |-> "pending", val |-> NoValue]

(***************************************************************************)
(* Records of the mutable arena.                                           *)
(***************************************************************************)
Addrs == 1..MaxHeap

Rec(k, c, cap) == [kind |-> k, content |-> c, cap |-> cap, to |-> NoValue]

\* Kinds with a ComplexValue payload (AValueImpl<Complex, T>).
ComplexKinds == {"partial", "def", "unfreezable"}

\* AValueHeader::overwrite_with_forward: the header becomes a forwarding
\* record.  The extra region of a tuple or of an array is not overwritten
\* (AValueForward::assert_does_not_overwrite_extra).
Forward(r, target) ==
    [kind |-> "forward",
     content |-> IF r.kind \in {"tuple", "array"} THEN r.content ELSE <<>>,
     cap |-> r.cap,
     to |-> target]

\* List::content(): the content of the array the list points to.
ListContent(h, p) ==
    LET c == h[p].content[1]
    IN  IF c.tag = "mut" THEN h[c.a].content ELSE <<>>

(***************************************************************************)
(* Records of the frozen arena.                                            *)
(***************************************************************************)
\* Freezer::reserve / reserve_with_extra: a BlackHole header of the right
\* size and an uninitialized extra region.
Reserved(n) == [kind |-> "BlackHole", len |-> 0, extra |-> [i \in 1..n |-> Uninit]]

\* r.fill(AValueImpl(Direct, FrozenTuple::new(len))) and the like.
Fill(r, k, n) == [r EXCEPT !.kind = k, !.len = n]

\* The frozen counterpart type of a Complex payload (T::Frozen).
FrozenKind(k) ==
    CASE k = "partial" -> "FrozenPartial"
      [] k = "def" -> "FrozenDef"
      [] OTHER -> "Frozen_" \o k

(***************************************************************************)
(* Array (values/types/array.rs): a record of kind "array" holds content   *)
(* (its first len cells) and its fixed capacity cap.                       *)
(***************************************************************************)
\* Array::new(0, cap) through array_avalue(cap)
array_avalue(cap) == Rec("array", <<>>, cap)

remaining_capacity(arr) == arr.cap - Len(arr.content)

\* Array::push; the caller has checked remaining_capacity(arr) >= 1.
ArrayPush(arr, v) == [arr EXCEPT !.content = Append(@, v)]

\* Array::extend_from_slice; the caller has checked the capacity.
ArrayExtendFromSlice(arr, slice) == [arr EXCEPT !.content = @ \o slice]

\* Array::clear: len becomes 0, the capacity stays.
ArrayClear(arr) == [arr EXCEPT !.content = <<>>]

(***************************************************************************)
(* The record constructors of avalue.rs.                                   *)
(***************************************************************************)
\* tuple_avalue(len), with the content the allocator writes after it
tuple_avalue(elems) == Rec("tuple", elems, 0)

\* list_avalue(content): a list record holds the pointer to its array
list_avalue(content) == Rec("list", <<content>>, 0)

\* complex(x) and simple(x)
complex(k, fields) == Rec(k, fields, 0)
simple == Rec("simple", <<>>, 0)

(***************************************************************************)
(* Heap: the allocation entry points the evaluator uses.  Each yields the  *)
(* arena after the call and the value returned.                            *)
(***************************************************************************)
Allocated(h, v) == [heap |-> h, val |-> v]

\* Heap::alloc_raw: bump allocation
alloc_raw(h, r) == Allocated(Append(h, r), Mut(Len(h) + 1))

\* Heap::alloc_tuple: the empty tuple is the static instance
alloc_tuple(h, elems) ==
    IF elems = <<>>
    THEN Allocated(h, VALUE_EMPTY_TUPLE)
    ELSE alloc_raw(h, tuple_avalue(elems))

\* Heap::alloc_array: the array without capacity is the static instance
alloc_array(h, cap) ==
    IF cap = 0
    THEN Allocated(h, VALUE_EMPTY_ARRAY)
    ELSE alloc_raw(h, array_avalue(cap))

\* The empty lists of the arena, and NoValue for none of them.
EmptyLists(h) ==
    {NoValue} \cup {Mut(p) : p \in {q \in 1..Len(h) : /\ h[q].kind = "list"
                                                      /\ ListContent(h, q) = <<>>}}

\* Heap::alloc_list: an array of the elements, then the list record.  Of an
\* empty list the allocator may return a pointer it has returned before:
\* shared is the empty list returned again, NoValue when the call makes a
\* record of its own.
alloc_list(h, elems, shared) ==
    LET arr == alloc_array(h, Len(elems))
        h1 == IF arr.val.tag = "mut"
              THEN [arr.heap EXCEPT ![arr.val.a] = ArrayExtendFromSlice(@, elems)]
              ELSE arr.heap
    IN  IF elems = <<>> /\ shared # NoValue THEN Allocated(h, shared)
        ELSE alloc_raw(h1, list_avalue(arr.val))

\* List::push: a full array is replaced by a larger one, then Array::push
ListPush(h, l, v) ==
    LET c == h[l].content[1]
        old == IF c.tag = "mut" THEN h[c.a] ELSE array_avalue(0)
        len == Len(old.content)
        grown == alloc_array(h, len + (IF len > 1 THEN len ELSE 1))
        h1 == [grown.heap EXCEPT ![grown.val.a] = ArrayExtendFromSlice(@, old.content),
                                 ![l] = list_avalue(grown.val)]
        h2 == IF remaining_capacity(old) >= 1 THEN h ELSE h1
        arr == h2[l].content[1].a
    IN  [h2 EXCEPT ![arr] = ArrayPush(@, v)]

\* List::clear: Array::clear on the list's array
ListClear(h, l) == [h EXCEPT ![h[l].content[1].a] = ArrayClear(@)]

\* The element cells in use in the arena.
RECURSIVE Cells(_)
Cells(h) ==
    IF h = <<>>
    THEN 0
    ELSE Cells(SubSeq(h, 1, Len(h) - 1))
         + (IF h[Len(h)].kind = "list" THEN 0 ELSE Len(h[Len(h)].content))

\* The values the evaluator holds: an immediate, and every value of the
\* arena (arrays are internal to their lists).
Vals(h) == {Imm(0)} \cup {Mut(p) : p \in {q \in 1..Len(h) : h[q].kind # "array"}}

Fits(h) == Len(h) <= MaxHeap /\ Cells(h) <= MaxRefs

\* The element lists an allocation may be given.
Elems(h, lo) == UNION {[1..n -> Vals(h)] : n \in lo..(MaxRefs - Cells(h))}

(***************************************************************************)
(* Activation frames.                                                      *)
(***************************************************************************)
Frame(p, fv, k, c) ==
    [a |-> p, fv |-> fv, kind |-> k, content |-> c, i |-> 1, acc |-> <<>>]

\* The caller of the pass (Module::freeze, the garbage collector): it hands
\* the root to Freezer::freeze / Tracer::trace and waits for the answer.
RootFrame(v) == Frame(0, NoValue, "root", <<v>>)

Top == stack[Len(stack)]
Rest == SubSeq(stack, 1, Len(stack) - 1)
Running == pc = "run" /\ stack # <<>>
HasChild == Running /\ Top.i <= Len(Top.content)
Child == Top.content[Top.i]
ChildIs(k) == HasChild /\ Child.tag = "mut" /\ heap[Child.a].kind = k
ChildDone == Running /\ Top.i > Len(Top.content)

\* The activation on top of stk gets Ok(v) back from the call it made.
Resume(stk, v) ==
    LET n == Len(stk)
    IN  [stk EXCEPT ![n] = [@ EXCEPT !.i = @ + 1, !.acc = Append(@, v)]]

(***************************************************************************)
(* Evaluation: the interpreter builds values in the arena.                 *)
(***************************************************************************)
FreezeInit ==
    /\ heap = <<>>
    /\ orig = <<>>
    /\ frozen = <<>>
    /\ stack = <<>>
    /\ pc = "eval"
    /\ result = Pending
    /\ frozen_defs = <<>>
    /\ entered = [p \in Addrs |-> 0]
    /\ returned = [p \in Addrs |-> "none"]
    /\ errStack = {}
    /\ tospace = <<>>
    /\ allocs = <<>>
    /\ array = NoValue
    /\ iters = <<>>
    /\ debug = TRUE
    /\ slots = <<NoValue>>
    /\ frozen_slots = <<NoValue>>
    /\ last_set = <<>>
    /\ borrow = [mut |-> FALSE, written |-> FALSE]
    /\ nums = <<>>
    /\ call = NoValue
    /\ threads = <<>>
    /\ evaluator = NoValue

Eval(h) ==
    /\ pc = "eval"
    /\ Fits(h)
    /\ heap' = h
    /\ UNCHANGED <<unitVars, tospace, allocs, orig, frozen, stack, pc, result, frozen_defs, entered,
                   returned, errStack>>

EvalAllocTuple ==
    /\ pc = "eval"
    /\ \E elems \in Elems(heap, 1) : Eval(alloc_tuple(heap, elems).heap)

EvalAllocList ==
    /\ pc = "eval"
    /\ \E elems \in Elems(heap, 0), shared \in EmptyLists(heap) :
          Eval(alloc_list(heap, elems, shared).heap)

EvalAllocComplex ==
    /\ pc = "eval"
    /\ \E k \in ComplexKinds, fields \in Elems(heap, 0) :
          /\ k = "unfreezable" => fields = <<>>
          /\ Eval(alloc_raw(heap, complex(k, fields)).heap)

EvalAllocSimple == Eval(alloc_raw(heap, simple).heap)

EvalListPush ==
    /\ pc = "eval"
    /\ \E l \in 1..Len(heap), v \in Vals(heap) :
          /\ heap[l].kind = "list"
          /\ Eval(ListPush(heap, l, v))

EvalListClear ==
    /\ pc = "eval"
    /\ \E l \in 1..Len(heap) :
          /\ heap[l].kind = "list"
          /\ ListContent(heap, l) # <<>>
          /\ Eval(ListClear(heap, l))

\* End of evaluation: the caller hands a root to the Freezer.
StartFreeze ==
    /\ pc = "eval"
    /\ \E v \in Vals(heap) : stack' = <<RootFrame(v)>>
    /\ pc' = "run"
    /\ orig' = heap
    /\ UNCHANGED <<unitVars, tospace, allocs, heap, frozen, result, frozen_defs, entered, returned, errStack>>

(***************************************************************************)
(* Freezer::freeze(value), as the callers in avalue.rs and extra.rs use    *)
(* it: a value that is not a pointer into the mutable heap is returned     *)
(* unchanged, a forwarded one resolves to its forwarding target, and any   *)
(* other is handed to the heap_freeze of its record.                       *)
(***************************************************************************)
\* The list activation on top of stk writes the value it got back straight
\* into its destination: elem_place.write(freezer.freeze(*elem)?).
ElemPlaceWrite(stk, frz, v) ==
    LET f == stk[Len(stk)]
    IN  IF f.kind = "list"
        THEN [frz EXCEPT ![f.fv.a].extra[f.i] = v]
        ELSE frz

\* Ok(v) comes back to the activation on top of stk.
ReturnOk(stk, frz, v) ==
    /\ stack' = Resume(stk, v)
    /\ frozen' = ElemPlaceWrite(stk, frz, v)

FreezeUnpackFrozen ==
    /\ HasChild
    /\ Child.tag # "mut"
    /\ ReturnOk(stack, frozen, Child)
    /\ UNCHANGED <<unitVars, tospace, allocs, heap, orig, pc, result, frozen_defs, entered, returned, errStack>>

FreezeForwarded ==
    /\ ChildIs("forward")
    /\ ReturnOk(stack, frozen, heap[Child.a].to)
    /\ UNCHANGED <<unitVars, tospace, allocs, heap, orig, pc, result, frozen_defs, entered, returned, errStack>>

(***************************************************************************)
(* AValueImpl<Direct, Tuple>::heap_freeze                                  *)
(***************************************************************************)
\* heap_freeze of a tuple that reserves but leaves the old header alone.
HeapFreezeTuple_NoForward ==
    /\ ChildIs("tuple")
    /\ Len(stack) < MaxDepth
    /\ LET p == Child.a
           content == heap[p].content
           fv == Frz(Len(frozen) + 1)
       IN  /\ frozen' = Append(frozen, Reserved(Len(content)))
           /\ stack' = Append(stack, Frame(p, fv, "tuple", content))
           /\ entered' = [entered EXCEPT ![p] = @ + 1]
    /\ UNCHANGED <<unitVars, tospace, allocs, heap, orig, pc, result, frozen_defs, returned, errStack>>

\* Up to the first recursive call: reserve, forward.
HeapFreezeTuple ==
    /\ ChildIs("tuple")
    /\ Len(stack) < MaxDepth
    /\ LET p == Child.a
           content == heap[p].content
           fv == Frz(Len(frozen) + 1)
       IN  /\ frozen' = Append(frozen, Reserved(Len(content)))
           /\ heap' = [heap EXCEPT ![p] = Forward(@, fv)]
           /\ stack' = Append(stack, Frame(p, fv, "tuple", content))
           /\ entered' = [entered EXCEPT ![p] = @ + 1]
    /\ UNCHANGED <<unitVars, tospace, allocs, orig, pc, result, frozen_defs, returned, errStack>>

\* A tuple whose extra region gets the unfrozen content, as heap_copy's does.
TupleFinish_WritesContent ==
    /\ ChildDone
    /\ Top.kind = "tuple"
    /\ LET f == Top
           filled == [frozen EXCEPT ![f.fv.a] =
                         [Fill(@, "FrozenTuple", Len(f.content)) EXCEPT !.extra = f.content]]
       IN  /\ ReturnOk(Rest, filled, f.fv)
           /\ returned' = [returned EXCEPT ![f.a] = "ok"]
    /\ UNCHANGED <<unitVars, tospace, allocs, heap, orig, pc, result, frozen_defs, entered, errStack>>

\* After try_map succeeded: r.fill, write_slice, Ok(fv).
TupleFinish ==
    /\ ChildDone
    /\ Top.kind = "tuple"
    /\ LET f == Top
           filled == [frozen EXCEPT ![f.fv.a] =
                         [Fill(@, "FrozenTuple", Len(f.content)) EXCEPT !.extra = f.acc]]
       IN  /\ ReturnOk(Rest, filled, f.fv)
           /\ returned' = [returned EXCEPT ![f.a] = "ok"]
    /\ UNCHANGED <<unitVars, tospace, allocs, heap, orig, pc, result, frozen_defs, entered, errStack>>

(***************************************************************************)
(* AValueImpl<Direct, ListGen<List>>::heap_freeze                          *)
(***************************************************************************)
\* An empty list frozen without the special case: a reserved list of length 0.
HeapFreezeListEmpty_Reserves ==
    /\ ChildIs("list")
    /\ ListContent(heap, Child.a) = <<>>
    /\ LET p == Child.a
           fv == Frz(Len(frozen) + 1)
       IN  /\ heap' = [heap EXCEPT ![p] = Forward(@, fv)]
           /\ ReturnOk(stack, Append(frozen, Fill(Reserved(0), "FrozenList", 0)), fv)
           /\ entered' = [entered EXCEPT ![p] = @ + 1]
           /\ returned' = [returned EXCEPT ![p] = "ok"]
    /\ UNCHANGED <<unitVars, tospace, allocs, orig, pc, result, frozen_defs, errStack>>

\* content.is_empty(): forward to the static instance and return it.
HeapFreezeListEmpty ==
    /\ ChildIs("list")
    /\ ListContent(heap, Child.a) = <<>>
    /\ LET p == Child.a
           fv == VALUE_EMPTY_FROZEN_LIST
       IN  /\ heap' = [heap EXCEPT ![p] = Forward(@, fv)]
           /\ ReturnOk(stack, frozen, fv)
           /\ entered' = [entered EXCEPT ![p] = @ + 1]
           /\ returned' = [returned EXCEPT ![p] = "ok"]
    /\ UNCHANGED <<unitVars, tospace, allocs, orig, pc, result, frozen_defs, errStack>>

\* heap_freeze of a list that reserves but leaves the old header alone.
HeapFreezeList_NoForward ==
    /\ ChildIs("list")
    /\ ListContent(heap, Child.a) # <<>>
    /\ Len(stack) < MaxDepth
    /\ LET p == Child.a
           content == ListContent(heap, p)
           fv == Frz(Len(frozen) + 1)
       IN  /\ frozen' = Append(frozen,
                               Fill(Reserved(Len(content)), "FrozenList", Len(content)))
           /\ stack' = Append(stack, Frame(p, fv, "list", content))
           /\ entered' = [entered EXCEPT ![p] = @ + 1]
    /\ UNCHANGED <<unitVars, tospace, allocs, heap, orig, pc, result, frozen_defs, returned, errStack>>

\* Up to the first recursive call: reserve, forward, r.fill.
HeapFreezeList ==
    /\ ChildIs("list")
    /\ ListContent(heap, Child.a) # <<>>
    /\ Len(stack) < MaxDepth
    /\ LET p == Child.a
           content == ListContent(heap, p)
           fv == Frz(Len(frozen) + 1)
       IN  /\ frozen' = Append(frozen,
                               Fill(Reserved(Len(content)), "FrozenList", Len(content)))
           /\ heap' = [heap EXCEPT ![p] = Forward(@, fv)]
           /\ stack' = Append(stack, Frame(p, fv, "list", content))
           /\ entered' = [entered EXCEPT ![p] = @ + 1]
    /\ UNCHANGED <<unitVars, tospace, allocs, orig, pc, result, frozen_defs, returned, errStack>>

\* The loop over the elements is over: Ok(fv).
ListFinish ==
    /\ ChildDone
    /\ Top.kind = "list"
    /\ ReturnOk(Rest, frozen, Top.fv)
    /\ returned' = [returned EXCEPT ![Top.a] = "ok"]
    /\ UNCHANGED <<unitVars, tospace, allocs, heap, orig, pc, result, frozen_defs, entered, errStack>>

(***************************************************************************)
(* AValueImpl::heap_freeze_simple_impl (Simple payloads, StarlarkFloat)    *)
(***************************************************************************)
HeapFreezeSimple ==
    /\ ChildIs("simple")
    /\ LET p == Child.a
           fv == Frz(Len(frozen) + 1)
           reserved == Append(frozen, Reserved(0))
           filled == [reserved EXCEPT ![fv.a] = Fill(@, "simple", 0)]
       IN  /\ heap' = [heap EXCEPT ![p] = Forward(@, fv)]
           /\ ReturnOk(stack, filled, fv)
           /\ entered' = [entered EXCEPT ![p] = @ + 1]
           /\ returned' = [returned EXCEPT ![p] = "ok"]
    /\ UNCHANGED <<unitVars, tospace, allocs, orig, pc, result, frozen_defs, errStack>>

(***************************************************************************)
(* AValueImpl<Complex, T>::heap_freeze                                     *)
(***************************************************************************)
\* heap_freeze of a Complex payload that reserves but leaves the old header alone.
HeapFreezeComplex_NoForward ==
    /\ HasChild
    /\ Child.tag = "mut"
    /\ heap[Child.a].kind \in ComplexKinds
    /\ Len(stack) < MaxDepth
    /\ LET p == Child.a
           x == heap[p]
           fv == Frz(Len(frozen) + 1)
       IN  /\ frozen' = Append(frozen, Reserved(0))
           /\ stack' = Append(stack, Frame(p, fv, x.kind, x.content))
           /\ entered' = [entered EXCEPT ![p] = @ + 1]
    /\ UNCHANGED <<unitVars, tospace, allocs, heap, orig, pc, result, frozen_defs, returned, errStack>>

\* Up to the call of the payload's freeze hook: reserve, forward.
HeapFreezeComplex ==
    /\ HasChild
    /\ Child.tag = "mut"
    /\ heap[Child.a].kind \in ComplexKinds
    /\ Len(stack) < MaxDepth
    /\ LET p == Child.a
           x == heap[p]
           fv == Frz(Len(frozen) + 1)
       IN  /\ frozen' = Append(frozen, Reserved(0))
           /\ heap' = [heap EXCEPT ![p] = Forward(@, fv)]
           /\ stack' = Append(stack, Frame(p, fv, x.kind, x.content))
           /\ entered' = [entered EXCEPT ![p] = @ + 1]
    /\ UNCHANGED <<unitVars, tospace, allocs, orig, pc, result, frozen_defs, returned, errStack>>

\* x.1.freeze(freezer) of a payload that declines to freeze: the hook
\* returns Err.
FreezeHookErr ==
    /\ Running
    /\ Top.kind = "unfreezable"
    /\ pc' = "unwind"
    /\ errStack' = {stack[j].a : j \in 2..Len(stack)}
    /\ UNCHANGED <<unitVars, tospace, allocs, heap, orig, frozen, stack, result, frozen_defs, entered, returned>>

\* The side list without the test of the frozen type.
ComplexFinish_PushesAll ==
    /\ ChildDone
    /\ Top.kind \in ComplexKinds \ {"unfreezable"}
    /\ LET f == Top
           k == FrozenKind(f.kind)
           filled == [frozen EXCEPT ![f.fv.a] =
                         [Fill(@, k, Len(f.acc)) EXCEPT !.extra = f.acc]]
       IN  /\ ReturnOk(Rest, filled, f.fv)
           /\ frozen_defs' = Append(frozen_defs, f.fv)
           /\ returned' = [returned EXCEPT ![f.a] = "ok"]
    /\ UNCHANGED <<unitVars, tospace, allocs, heap, orig, pc, result, entered, errStack>>

\* The hook returned Ok(res): r.fill, the frozen_defs side list, Ok(fv).
ComplexFinish ==
    /\ ChildDone
    /\ Top.kind \in ComplexKinds \ {"unfreezable"}
    /\ LET f == Top
           k == FrozenKind(f.kind)
           filled == [frozen EXCEPT ![f.fv.a] =
                         [Fill(@, k, Len(f.acc)) EXCEPT !.extra = f.acc]]
       IN  /\ ReturnOk(Rest, filled, f.fv)
           /\ frozen_defs' = IF k = "FrozenDef"
                             THEN Append(frozen_defs, f.fv)
                             ELSE frozen_defs
           /\ returned' = [returned EXCEPT ![f.a] = "ok"]
    /\ UNCHANGED <<unitVars, tospace, allocs, heap, orig, pc, result, entered, errStack>>

(***************************************************************************)
(* The ? operators: an Err coming back from a call leaves the activation   *)
(* at once, with the same Err.                                             *)
(***************************************************************************)
PropagateErr(k) ==
    /\ pc = "unwind"
    /\ stack # <<>>
    /\ Top.kind \in k
    /\ stack' = Rest
    /\ returned' = [returned EXCEPT ![Top.a] = "err"]
    /\ UNCHANGED <<unitVars, tospace, allocs, heap, orig, frozen, pc, result, frozen_defs, entered, errStack>>

\* A tuple that drops the Err of an element and returns its destination.
TupleErr_Swallowed ==
    /\ pc = "unwind"
    /\ stack # <<>>
    /\ Top.kind = "tuple"
    /\ pc' = "run"
    /\ ReturnOk(Rest, frozen, Top.fv)
    /\ returned' = [returned EXCEPT ![Top.a] = "ok"]
    /\ UNCHANGED <<unitVars, tospace, allocs, heap, orig, result, frozen_defs, entered, errStack>>

\* content.try_map(|v| freezer.freeze(*v))?
TupleErr == PropagateErr({"tuple"})

\* elem_place.write(freezer.freeze(*elem)?)
ListErr == PropagateErr({"list"})

\* x.1.freeze(freezer)?
ComplexErr == PropagateErr(ComplexKinds)

(***************************************************************************)
(* The caller of the pass gets its answer.                                 *)
(***************************************************************************)
RootOk ==
    /\ ChildDone
    /\ Top.kind = "root"
    /\ result' = Ok(Top.acc[1])
    /\ pc' = "done"
    /\ UNCHANGED <<unitVars, tospace, allocs, heap, orig, frozen, stack, frozen_defs, entered, returned, errStack>>

RootErr ==
    /\ pc = "unwind"
    /\ stack # <<>>
    /\ Top.kind = "root"
    /\ result' = Err
    /\ pc' = "done"
    /\ UNCHANGED <<unitVars, tospace, allocs, heap, orig, frozen, stack, frozen_defs, entered, returned, errStack>>

FreezeNext ==
    \/ EvalAllocTuple
    \/ EvalAllocList
    \/ EvalAllocComplex
    \/ EvalAllocSimple
    \/ EvalListPush
    \/ EvalListClear
    \/ StartFreeze
    \/ FreezeUnpackFrozen
    \/ FreezeForwarded
    \/ HeapFreezeTuple
    \/ TupleFinish
    \/ HeapFreezeListEmpty
    \/ HeapFreezeList
    \/ ListFinish
    \/ HeapFreezeSimple
    \/ HeapFreezeComplex
    \/ FreezeHookErr
    \/ ComplexFinish
    \/ TupleErr
    \/ ListErr
    \/ ComplexErr
    \/ RootOk
    \/ RootErr

FreezeSpec == FreezeInit /\ [][FreezeNext]_vars

TypeOK ==
    /\ pc \in {"eval", "run", "unwind", "done"}
    /\ \A p \in Addrs : entered[p] \in 0..MaxDepth

(***************************************************************************)
(* Tracer::trace(&mut value), as the heap_copy bodies of avalue.rs use it: *)
(* a value that is not a pointer into the arena being vacated is left as   *)
(* it is, a forwarded one is replaced by its forwarding target, and any    *)
(* other is replaced by what the heap_copy of its record returns.          *)
(***************************************************************************)
\* A destination of the Tracer before r.fill.
ReservedCopy(n) ==
    [kind |-> "BlackHole", content |-> [i \in 1..n |-> Uninit], cap |-> 0, to |-> NoValue]

\* End of evaluation: the collector hands a root to the Tracer.
StartTrace ==
    /\ pc = "eval"
    /\ \E v \in Vals(heap) : stack' = <<RootFrame(v)>>
    /\ pc' = "run"
    /\ orig' = heap
    /\ UNCHANGED <<unitVars, heap, frozen, result, frozen_defs, entered, returned, errStack,
                   tospace, allocs>>

\* The slot the activation on top of stk handed to Tracer::trace gets v.
\* A tuple and an array trace the cells of the old record in place
\* (content.iter_mut(), content.trace(tracer)); heap_copy_impl traces the
\* payload x it has moved out of the old record.
TraceWrite(stk, h, v) ==
    LET f == stk[Len(stk)]
    IN  IF f.kind \in {"tuple", "array"}
        THEN [h EXCEPT ![f.a].content[f.i] = v]
        ELSE h

\* The traced value v comes back to the activation on top of stk.
ReturnTraced(stk, h, v) ==
    /\ stack' = Resume(stk, v)
    /\ heap' = TraceWrite(stk, h, v)

TraceUnpack ==
    /\ HasChild
    /\ Child.tag # "mut"
    /\ ReturnTraced(stack, heap, Child)
    /\ UNCHANGED <<unitVars, orig, frozen, pc, result, frozen_defs, entered, returned, errStack,
                   tospace, allocs>>

TraceForwarded ==
    /\ ChildIs("forward")
    /\ ReturnTraced(stack, heap, heap[Child.a].to)
    /\ UNCHANGED <<unitVars, orig, frozen, pc, result, frozen_defs, entered, returned, errStack,
                   tospace, allocs>>

\* The part heap_copy of a tuple, heap_copy of an array with content and
\* heap_copy_impl have in common: reserve the destination, overwrite the
\* old header with the forward to it, start on the nested references.
ReserveForwardTrace(p, content) ==
    LET v == New(Len(tospace) + 1)
    IN  /\ tospace' = Append(tospace, ReservedCopy(Len(content)))
        /\ heap' = [heap EXCEPT ![p] = Forward(@, v)]
        /\ stack' = Append(stack, Frame(p, v, heap[p].kind, content))
        /\ entered' = [entered EXCEPT ![p] = @ + 1]

\* The same without the forward.
ReserveTrace(p, content) ==
    LET v == New(Len(tospace) + 1)
    IN  /\ tospace' = Append(tospace, ReservedCopy(Len(content)))
        /\ heap' = heap
        /\ stack' = Append(stack, Frame(p, v, heap[p].kind, content))
        /\ entered' = [entered EXCEPT ![p] = @ + 1]

\* r.fill(x), write_slice, v: the destination gets its record and the
\* caller gets the destination.
FillCopy(r) ==
    LET f == Top
        filled == [tospace EXCEPT ![f.fv.a] = r]
    IN  /\ tospace' = filled
        /\ ReturnTraced(Rest, heap, f.fv)
        /\ returned' = [returned EXCEPT ![f.a] = "ok"]

(***************************************************************************)
(* AValueImpl<Direct, Tuple>::heap_copy                                    *)
(***************************************************************************)
HeapCopyTuple ==
    /\ ChildIs("tuple")
    /\ Len(stack) < MaxDepth
    /\ ReserveForwardTrace(Child.a, heap[Child.a].content)
    /\ UNCHANGED <<unitVars, orig, frozen, pc, result, frozen_defs, returned, errStack, allocs>>

\* r.fill(x); MaybeUninit::write_slice(extra, content); v
HeapCopyTupleFinish ==
    /\ ChildDone
    /\ Top.kind = "tuple"
    /\ FillCopy(tuple_avalue(heap[Top.a].content))
    /\ UNCHANGED <<unitVars, orig, frozen, pc, result, frozen_defs, entered, errStack, allocs>>

(***************************************************************************)
(* AValueImpl<Direct, Array>::heap_copy                                    *)
(***************************************************************************)
\* len() == 0: the static empty array, and the old record stays as it is.
HeapCopyArrayEmpty ==
    /\ ChildIs("array")
    /\ heap[Child.a].content = <<>>
    /\ ReturnTraced(stack, heap, VALUE_EMPTY_ARRAY)
    /\ entered' = [entered EXCEPT ![Child.a] = @ + 1]
    /\ returned' = [returned EXCEPT ![Child.a] = "ok"]
    /\ UNCHANGED <<unitVars, orig, frozen, pc, result, frozen_defs, errStack, tospace, allocs>>

HeapCopyArray ==
    /\ ChildIs("array")
    /\ heap[Child.a].content # <<>>
    /\ Len(stack) < MaxDepth
    /\ ReserveForwardTrace(Child.a, heap[Child.a].content)
    /\ UNCHANGED <<unitVars, orig, frozen, pc, result, frozen_defs, returned, errStack, allocs>>

\* A copy that keeps the capacity of the old array.
HeapCopyArrayFinish_KeepsCapacity ==
    /\ ChildDone
    /\ Top.kind = "array"
    /\ LET content == heap[Top.a].content
       IN  FillCopy(ArrayExtendFromSlice(array_avalue(heap[Top.a].cap), content))
    /\ UNCHANGED <<unitVars, orig, frozen, pc, result, frozen_defs, entered, errStack, allocs>>

\* r.fill(Array::new(len, len)); write_slice(extra, content); v.  The copy
\* has no spare capacity.
HeapCopyArrayFinish ==
    /\ ChildDone
    /\ Top.kind = "array"
    /\ LET content == heap[Top.a].content
       IN  FillCopy(ArrayExtendFromSlice(array_avalue(Len(content)), content))
    /\ UNCHANGED <<unitVars, orig, frozen, pc, result, frozen_defs, entered, errStack, allocs>>

(***************************************************************************)
(* AValueImpl::heap_copy_impl: lists, Complex and Simple payloads.  The    *)
(* trace argument visits the array pointer of a list, every field of a     *)
(* Complex payload, and nothing of a Simple payload.                       *)
(***************************************************************************)
\* heap_copy_impl that reserves but leaves the old header alone.
HeapCopyImpl_NoForward ==
    /\ HasChild
    /\ Child.tag = "mut"
    /\ heap[Child.a].kind \in {"list", "simple"} \cup ComplexKinds
    /\ Len(stack) < MaxDepth
    /\ ReserveTrace(Child.a, heap[Child.a].content)
    /\ UNCHANGED <<unitVars, orig, frozen, pc, result, frozen_defs, returned, errStack, allocs>>

HeapCopyImpl ==
    /\ HasChild
    /\ Child.tag = "mut"
    /\ heap[Child.a].kind \in {"list", "simple"} \cup ComplexKinds
    /\ Len(stack) < MaxDepth
    /\ ReserveForwardTrace(Child.a, heap[Child.a].content)
    /\ UNCHANGED <<unitVars, orig, frozen, pc, result, frozen_defs, returned, errStack, allocs>>

\* r.fill(x); v
HeapCopyImplFinish ==
    /\ ChildDone
    /\ Top.kind \in {"list", "simple"} \cup ComplexKinds
    /\ FillCopy(Rec(Top.kind, Top.acc, 0))
    /\ UNCHANGED <<unitVars, orig, frozen, pc, result, frozen_defs, entered, errStack, allocs>>

\* The collector has its root back.
TraceRootDone ==
    /\ ChildDone
    /\ Top.kind = "root"
    /\ result' = Ok(Top.acc[1])
    /\ pc' = "done"
    /\ UNCHANGED <<unitVars, heap, orig, frozen, stack, frozen_defs, entered, returned, errStack,
                   tospace, allocs>>

TraceNext ==
    \/ EvalAllocTuple
    \/ EvalAllocList
    \/ EvalAllocComplex
    \/ EvalAllocSimple
    \/ EvalListPush
    \/ EvalListClear
    \/ StartTrace
    \/ TraceUnpack
    \/ TraceForwarded
    \/ HeapCopyTuple
    \/ HeapCopyTupleFinish
    \/ HeapCopyArrayEmpty
    \/ HeapCopyArray
    \/ HeapCopyArrayFinish
    \/ HeapCopyImpl
    \/ HeapCopyImplFinish
    \/ TraceRootDone

TraceSpec == FreezeInit /\ [][TraceNext]_vars

(***************************************************************************)
(* Allocation as the evaluator sees it: calls of Heap::alloc_tuple and     *)
(* Heap::alloc_list, each logged with the value it returned and the record *)
(* that value pointed to on return, and List::push on the lists made.      *)
(***************************************************************************)
Logged(op, elems, r) ==
    [op |-> op,
     elems |-> elems,
     val |-> r.val,
     rec |-> IF r.val.tag = "mut" THEN r.heap[r.val.a] ELSE NoValue,
     content |-> IF r.val.tag = "mut" /\ r.heap[r.val.a].kind = "list"
                 THEN ListContent(r.heap, r.val.a)
                 ELSE elems]

Alloc(op, elems, r) ==
    /\ pc = "eval"
    /\ Len(allocs) < MaxAllocs
    /\ Fits(r.heap)
    /\ heap' = r.heap
    /\ allocs' = Append(allocs, Logged(op, elems, r))
    /\ UNCHANGED <<unitVars, orig, frozen, stack, pc, result, frozen_defs, entered, returned,
                   errStack, tospace>>

AllocTuple ==
    /\ Len(allocs) < MaxAllocs
    /\ \E elems \in Elems(heap, 0) : Alloc("alloc_tuple", elems, alloc_tuple(heap, elems))

AllocList ==
    /\ Len(allocs) < MaxAllocs
    /\ \E elems \in Elems(heap, 0), shared \in EmptyLists(heap) :
          Alloc("alloc_list", elems, alloc_list(heap, elems, shared))

AllocNext ==
    \/ AllocTuple
    \/ AllocList
    \/ EvalListPush

AllocSpec == FreezeInit /\ [][AllocNext]_vars

(***************************************************************************)
(* Array in full (values/types/array.rs): len, the fixed capacity, the     *)
(* count of iterators alive, and the capacity cells after the header, of   *)
(* which content() is the first len.  Indices are the code's, from 0.  An  *)
(* operation yields the array after it, what it returned, and the          *)
(* assertion that stopped it, if one did.                                  *)
(***************************************************************************)
\* Array::new(len, capacity): the cells are not populated.
Array_new(len, capacity) ==
    [len |-> len,
     capacity |-> capacity,
     iter_count |-> 0,
     cells |-> [i \in 1..capacity |-> Uninit]]

Array_len(a) == a.len
Array_capacity(a) == a.capacity
\* No array is taken for the static one.
is_statically_allocated_Never(a) == FALSE

is_statically_allocated(a) == a.capacity = 0
iter_count_is_non_zero(a) == a.iter_count # 0

\* content(): slice::from_raw_parts(self.content.as_ptr(), self.len())
Array_content(a) == [i \in 1..a.len |-> a.cells[i]]

\* How a call ends: it returns, or an assertion fails and the process
\* aborts with the array as it was at that moment.
Returns(a, ret) == [array |-> a, ret |-> ret, panic |-> "none"]
Panics(a, assertion) == [array |-> a, ret |-> NoValue, panic |-> assertion]

\* remaining_capacity() without the assertion on the iterator count.
Array_remaining_capacity_Unguarded(a, dbg) ==
    IF dbg /\ ~(a.capacity >= a.len) THEN Panics(a, "capacity >= len")
    ELSE Returns(a, a.capacity - a.len)

\* remaining_capacity(): the two debug assertions, then the difference.
Array_remaining_capacity(a, dbg) ==
    IF dbg /\ ~(a.capacity >= a.len) THEN Panics(a, "capacity >= len")
    ELSE IF dbg /\ iter_count_is_non_zero(a) THEN Panics(a, "iter_count")
    ELSE Returns(a, a.capacity - a.len)

\* get_unchecked(index)
get_unchecked(a, index) == a.cells[index + 1]

\* ptr::copy(ptr_at(src), mut_ptr_at(dst), count): count cells move, as by
\* memmove.
PtrCopy(cells, src, dst, count) ==
    [i \in 1..Len(cells) |->
        IF i - 1 >= dst /\ i - 1 < dst + count
        THEN cells[(i - 1) - dst + src + 1]
        ELSE cells[i]]

set_at(a, dbg, index, value) ==
    IF dbg /\ iter_count_is_non_zero(a) THEN Panics(a, "iter_count")
    ELSE IF ~(index < a.len) THEN Panics(a, "index < len")
    ELSE Returns([a EXCEPT !.cells[index + 1] = value], NoValue)

\* insert that writes over the element at index instead of moving it.
insert_Overwrites(a, dbg, index, value) ==
    LET rc == Array_remaining_capacity(a, dbg)
    IN  IF rc.panic # "none" THEN rc
        ELSE IF ~(rc.ret >= 1) THEN Panics(a, "remaining_capacity")
        ELSE IF ~(index <= a.len) THEN Panics(a, "index <= len")
        ELSE Returns([a EXCEPT !.cells[index + 1] = value, !.len = @ + 1], NoValue)

insert(a, dbg, index, value) ==
    LET rc == Array_remaining_capacity(a, dbg)
    IN  IF rc.panic # "none" THEN rc
        ELSE IF ~(rc.ret >= 1) THEN Panics(a, "remaining_capacity")
        ELSE IF ~(index <= a.len) THEN Panics(a, "index <= len")
        ELSE Returns([a EXCEPT
                        !.cells = [PtrCopy(@, index, index + 1, a.len - index)
                                      EXCEPT ![index + 1] = value],
                        !.len = @ + 1],
                     NoValue)

\* push that makes room when there is none.
push_Grows(a, dbg, value) ==
    LET rc == Array_remaining_capacity(a, dbg)
        room == IF rc.ret >= 1
                THEN a
                ELSE [a EXCEPT !.capacity = @ + 1, !.cells = Append(@, Uninit)]
    IN  IF rc.panic # "none" THEN rc
        ELSE Returns([room EXCEPT !.cells[a.len + 1] = value, !.len = @ + 1], NoValue)

push(a, dbg, value) ==
    LET rc == Array_remaining_capacity(a, dbg)
    IN  IF rc.panic # "none" THEN rc
        ELSE IF ~(rc.ret >= 1) THEN Panics(a, "remaining_capacity")
        ELSE Returns([a EXCEPT !.cells[a.len + 1] = value, !.len = @ + 1], NoValue)

\* double without the assertion on the remaining capacity.
double_Unchecked(a, dbg) ==
    LET rc == Array_remaining_capacity(a, dbg)
    IN  IF rc.panic # "none" THEN rc
        ELSE Returns([a EXCEPT !.len = @ * 2], NoValue)

\* double(): self.extend_from_within(..)
double(a, dbg) ==
    LET rc == Array_remaining_capacity(a, dbg)
    IN  IF rc.panic # "none" THEN rc
        ELSE IF ~(rc.ret >= a.len) THEN Panics(a, "remaining_capacity")
        ELSE Returns([a EXCEPT !.cells = PtrCopy(@, 0, a.len, a.len), !.len = @ * 2],
                     NoValue)

\* extend that looks at the capacity before it appends anything.
extend_Atomic(a, dbg, items) ==
    LET rc == Array_remaining_capacity(a, dbg)
    IN  IF items = <<>> THEN Returns(a, NoValue)
        ELSE IF rc.panic # "none" THEN rc
        ELSE IF ~(rc.ret >= Len(items)) THEN Panics(a, "remaining_capacity")
        ELSE Returns([a EXCEPT
                        !.cells = [i \in 1..a.capacity |->
                                      IF i > a.len /\ i <= a.len + Len(items)
                                      THEN items[i - a.len]
                                      ELSE @[i]],
                        !.len = @ + Len(items)],
                     NoValue)

\* extend(iter): for item in iter { self.push(item) }
RECURSIVE extend(_, _, _)
extend(a, dbg, items) ==
    IF items = <<>>
    THEN Returns(a, NoValue)
    ELSE LET r == push(a, dbg, Head(items))
         IN  IF r.panic # "none" THEN r ELSE extend(r.array, dbg, Tail(items))

extend_from_slice(a, dbg, slice) ==
    LET rc == Array_remaining_capacity(a, dbg)
    IN  IF rc.panic # "none" THEN rc
        ELSE IF ~(rc.ret >= Len(slice)) THEN Panics(a, "remaining_capacity")
        ELSE Returns([a EXCEPT
                        !.cells = [i \in 1..a.capacity |->
                                      IF i > a.len /\ i <= a.len + Len(slice)
                                      THEN slice[i - a.len]
                                      ELSE @[i]],
                        !.len = @ + Len(slice)],
                     NoValue)

clear(a, dbg) ==
    IF dbg /\ iter_count_is_non_zero(a) THEN Panics(a, "iter_count")
    ELSE Returns([a EXCEPT !.len = 0], NoValue)

\* remove that takes the last element whatever the index.
remove_Last(a, dbg, index) ==
    IF dbg /\ iter_count_is_non_zero(a) THEN Panics(a, "iter_count")
    ELSE IF ~(index < a.len) THEN Panics(a, "index < len")
    ELSE Returns([a EXCEPT !.len = @ - 1], get_unchecked(a, a.len - 1))

remove(a, dbg, index) ==
    IF dbg /\ iter_count_is_non_zero(a) THEN Panics(a, "iter_count")
    ELSE IF ~(index < a.len) THEN Panics(a, "index < len")
    ELSE Returns([a EXCEPT
                    !.cells = PtrCopy(@, index + 1, index, a.len - 1 - index),
                    !.len = @ - 1],
                 get_unchecked(a, index))

\* iter(): the count goes up unless the array is the static one; the
\* iterator starts at 0.
ArrayIter(next) == [next |-> next, live |-> TRUE]
\* An iterator that has been dropped: nothing of it is left.
Dropped == [next |-> 0, live |-> FALSE]
\* iter() that leaves the count alone.
iter_Uncounted(a) == Returns(a, ArrayIter(0))

iter(a) ==
    Returns(IF ~is_statically_allocated(a) THEN [a EXCEPT !.iter_count = @ + 1] ELSE a,
            ArrayIter(0))

\* next that stops only where the cursor meets the len; a read beyond the
\* cells gives whatever is there.
ArrayIter_next_StopsAtLen(a, it) ==
    IF it.next = a.len
    THEN [iter |-> it, ret |-> NoValue]
    ELSE [iter |-> [it EXCEPT !.next = @ + 1],
          ret |-> IF it.next < Len(a.cells) THEN a.cells[it.next + 1] ELSE Uninit]

\* ArrayIter::next: the cursor against the len the array has now.
ArrayIter_next(a, it) ==
    IF it.next >= a.len
    THEN [iter |-> it, ret |-> NoValue]
    ELSE [iter |-> [it EXCEPT !.next = @ + 1], ret |-> get_unchecked(a, it.next)]

\* ExactSizeIterator::len: self.array.len().saturating_sub(self.next)
ArrayIter_len(a, it) == IF a.len >= it.next THEN a.len - it.next ELSE 0

\* Drop for ArrayIter.  The count is a u32: without the debug assertion
\* 0 - 1 wraps to u32::MAX, which is held here as its residue -1.
ArrayIter_drop(a, dbg) ==
    IF ~is_statically_allocated(a)
    THEN IF dbg /\ ~(a.iter_count >= 1) THEN Panics(a, "iter_count >= 1")
         ELSE Returns([a EXCEPT !.iter_count = @ - 1], NoValue)
    ELSE IF dbg /\ ~(a.iter_count = 0) THEN Panics(a, "iter_count == 0")
         ELSE Returns(a, NoValue)

(***************************************************************************)
(* A program using one Array: it makes the array, then calls its           *)
(* operations and makes, advances and drops iterators over it, until an    *)
(* assertion aborts it.  call holds the last call: its name, arguments,    *)
(* return value and the assertion that failed.                             *)
(***************************************************************************)
Call(op, args, ret, panic) == [op |-> op, args |-> args, ret |-> ret, panic |-> panic]

\* The process has not aborted.
Alive == IF call = NoValue THEN TRUE ELSE call.panic = "none"

ArrayVals == {Imm(0), Imm(1)}
ArrayItems == UNION {[1..n -> ArrayVals] : n \in 0..MaxItems}

\* The array becomes what the call r left and the call is recorded.
ArrayCall(op, args, r) ==
    /\ array' = r.array
    /\ call' = Call(op, args, r.ret, r.panic)

NewArray ==
    /\ array = NoValue
    /\ call = NoValue
    /\ \E cap \in 0..MaxCap, dbg \in BOOLEAN :
          /\ array' = Array_new(0, cap)
          /\ debug' = dbg
          /\ call' = Call("new", <<0, cap>>, NoValue, "none")
    /\ UNCHANGED <<heapVars, moreVars, slotVars, nums, iters>>

CallPush ==
    /\ array # NoValue /\ Alive
    /\ \E v \in ArrayVals : ArrayCall("push", <<v>>, push(array, debug, v))
    /\ UNCHANGED <<heapVars, moreVars, slotVars, nums, iters, debug>>

CallInsert ==
    /\ array # NoValue /\ Alive
    /\ \E i \in 0..(array.len + 1), v \in ArrayVals :
          ArrayCall("insert", <<i, v>>, insert(array, debug, i, v))
    /\ UNCHANGED <<heapVars, moreVars, slotVars, nums, iters, debug>>

CallDouble ==
    /\ array # NoValue /\ Alive
    /\ ArrayCall("double", <<>>, double(array, debug))
    /\ UNCHANGED <<heapVars, moreVars, slotVars, nums, iters, debug>>

CallExtend ==
    /\ array # NoValue /\ Alive
    /\ \E items \in ArrayItems : ArrayCall("extend", items, extend(array, debug, items))
    /\ UNCHANGED <<heapVars, moreVars, slotVars, nums, iters, debug>>

CallExtendFromSlice ==
    /\ array # NoValue /\ Alive
    /\ \E slice \in ArrayItems :
          ArrayCall("extend_from_slice", slice, extend_from_slice(array, debug, slice))
    /\ UNCHANGED <<heapVars, moreVars, slotVars, nums, iters, debug>>

CallSetAt ==
    /\ array # NoValue /\ Alive
    /\ \E i \in 0..array.len, v \in ArrayVals :
          ArrayCall("set_at", <<i, v>>, set_at(array, debug, i, v))
    /\ UNCHANGED <<heapVars, moreVars, slotVars, nums, iters, debug>>

CallRemove ==
    /\ array # NoValue /\ Alive
    /\ \E i \in 0..array.len : ArrayCall("remove", <<i>>, remove(array, debug, i))
    /\ UNCHANGED <<heapVars, moreVars, slotVars, nums, iters, debug>>

CallClear ==
    /\ array # NoValue /\ Alive
    /\ ArrayCall("clear", <<>>, clear(array, debug))
    /\ UNCHANGED <<heapVars, moreVars, slotVars, nums, iters, debug>>

CallIter ==
    /\ array # NoValue /\ Alive
    /\ Len(iters) < MaxIters
    /\ LET r == iter(array)
       IN  /\ ArrayCall("iter", <<>>, r)
           /\ iters' = Append(iters, r.ret)
    /\ UNCHANGED <<heapVars, moreVars, slotVars, nums, debug>>

CallNext ==
    /\ array # NoValue /\ Alive
    /\ \E k \in 1..Len(iters) :
          /\ iters[k].live
          /\ LET r == ArrayIter_next(array, iters[k])
             IN  /\ iters' = [iters EXCEPT ![k] = r.iter]
                 /\ call' = Call("next", <<k>>, r.ret, "none")
    /\ UNCHANGED <<heapVars, moreVars, slotVars, nums, array, debug>>

DropIter ==
    /\ array # NoValue /\ Alive
    /\ \E k \in 1..Len(iters) :
          /\ iters[k].live
          /\ ArrayCall("drop", <<k>>, ArrayIter_drop(array, debug))
          /\ iters' = [iters EXCEPT ![k] = Dropped]
    /\ UNCHANGED <<heapVars, moreVars, slotVars, nums, debug>>

ArrayNext ==
    \/ NewArray
    \/ CallPush
    \/ CallInsert
    \/ CallDouble
    \/ CallExtend
    \/ CallExtendFromSlice
    \/ CallSetAt
    \/ CallRemove
    \/ CallClear
    \/ CallIter
    \/ CallNext
    \/ DropIter

ArraySpec == FreezeInit /\ [][ArrayNext]_vars

(***************************************************************************)
(* The static empty array shared by threads.  VALUE_EMPTY_ARRAY is         *)
(* Array::new(0, 0) in a static; every thread reaches the same fields      *)
(* through UnsafeCell, without a lock.  A call of a thread is two steps:   *)
(* it reads the fields, then it fails its assertion or stores what it      *)
(* computed from what it read.  Between the two the other threads run.     *)
(* A failed assertion ends the thread that made the call.                  *)
(***************************************************************************)

IdleThread ==
    [pc |-> "idle", op |-> "none", args |-> <<>>, seen |-> NoValue,
     iter |-> NoValue, ret |-> NoValue, panic |-> "none"]

\* What the call of thread th computes from the fields a it has read.
ThreadRun(a, dbg, th) ==
    CASE th.op = "len" -> Returns(a, Imm(Array_len(a)))
      [] th.op = "iter_count_is_non_zero" ->
            Returns(a, Imm(IF iter_count_is_non_zero(a) THEN 1 ELSE 0))
      [] th.op = "iter" -> iter(a)
      [] th.op = "next" -> Returns(a, ArrayIter_next(a, th.iter).ret)
      [] th.op = "drop" -> ArrayIter_drop(a, dbg)
      [] th.op = "clear" -> clear(a, dbg)
      [] th.op = "double" -> double(a, dbg)
      [] th.op = "extend" -> extend(a, dbg, th.args)
      [] th.op = "extend_from_slice" -> extend_from_slice(a, dbg, th.args)
      [] th.op = "push" -> push(a, dbg, th.args[1])
      [] th.op = "insert" -> insert(a, dbg, th.args[1], th.args[2])
      [] th.op = "set_at" -> set_at(a, dbg, th.args[1], th.args[2])
      [] th.op = "remove" -> remove(a, dbg, th.args[1])

\* Nothing and something to extend the static with.
StaticItems == {<<>>, <<Imm(0)>>}

\* The calls a thread may make, with their arguments.
ThreadCalls(th) ==
    (IF th.iter = NoValue
     THEN {<<"iter", <<>> >>}
     ELSE {<<"next", <<>> >>, <<"drop", <<>> >>})
       \cup {<<"len", <<>> >>, <<"iter_count_is_non_zero", <<>> >>,
             <<"clear", <<>> >>, <<"double", <<>> >>}
       \cup {<<"extend", items>> : items \in StaticItems}
       \cup {<<"extend_from_slice", items>> : items \in StaticItems}
       \cup {<<"push", <<Imm(0)>> >>, <<"insert", <<0, Imm(0)>> >>,
             <<"set_at", <<0, Imm(0)>> >>, <<"remove", <<0>> >>}

\* The static comes into being with the program; the threads start idle.
ShareStatic ==
    /\ array = NoValue /\ threads = <<>> /\ call = NoValue
    /\ array' = Array_new(0, 0)
    /\ \E dbg \in BOOLEAN : debug' = dbg
    /\ threads' = [t \in 1..MaxThreads |-> IdleThread]
    /\ UNCHANGED <<heapVars, slotVars, nums, iters, call, evaluator>>

\* A thread enters a call and reads the fields of the array.
ThreadCall ==
    /\ threads # <<>>
    /\ \E t \in 1..Len(threads) :
          /\ threads[t].pc = "idle"
          /\ \E c \in ThreadCalls(threads[t]) :
                threads' = [threads EXCEPT ![t].pc = "run",
                                           ![t].op = c[1],
                                           ![t].args = c[2],
                                           ![t].seen = array,
                                           ![t].ret = NoValue]
    /\ UNCHANGED <<heapVars, arrayVars, slotVars, nums, call, evaluator>>

\* The thread fails its assertion, or stores its results and returns.  The
\* unwinding of a failed thread drops its iterator, which for the static
\* array stores nothing.
ThreadReturn ==
    /\ threads # <<>>
    /\ \E t \in 1..Len(threads) :
          /\ threads[t].pc = "run"
          /\ LET th == threads[t]
                 r == ThreadRun(th.seen, debug, th)
             IN  IF r.panic # "none"
                 THEN /\ array' = [array EXCEPT !.len = r.array.len,
                                                !.cells = r.array.cells]
                      /\ threads' = [threads EXCEPT ![t].pc = "panicked",
                                                    ![t].seen = NoValue,
                                                    ![t].iter = NoValue,
                                                    ![t].panic = r.panic]
                 ELSE /\ array' = [array EXCEPT !.len = r.array.len,
                                                !.iter_count = r.array.iter_count,
                                                !.cells = r.array.cells]
                      /\ threads' =
                            [threads EXCEPT
                               ![t].pc = "idle",
                               ![t].seen = NoValue,
                               ![t].ret = r.ret,
                               ![t].iter =
                                  CASE th.op = "iter" -> r.ret
                                    [] th.op = "next" -> ArrayIter_next(th.seen, th.iter).iter
                                    [] th.op = "drop" -> NoValue
                                    [] OTHER -> @]
    /\ UNCHANGED <<heapVars, slotVars, nums, iters, debug, call, evaluator>>

StaticNext ==
    \/ ShareStatic
    \/ ThreadCall
    \/ ThreadReturn

StaticSpec == FreezeInit /\ [][StaticNext]_vars

(***************************************************************************)
(* Module slots: environment/slots.rs.  A MutableSlots is a vector of      *)
(* values, index i of the code being element i + 1 of the sequence; the    *)
(* unassigned sentinel fills the slots nothing was stored in.  Every       *)
(* operation is an operator from the table and its arguments to the table  *)
(* it leaves, what it returns and the panic it ends in.                    *)
(***************************************************************************)

\* Value::new_unassigned(): the sentinel, a frozen value.
Unassigned == [tag |-> "unassigned", a |-> 0]
is_unassigned(v) == v = Unassigned

\* Value::freeze: the frozen image of a value; frozen values are their own.
Value_freeze(v) == IF v.tag = "mut" THEN Frz(v.a) ELSE v

SlotsReturn(s, ret) == [slots |-> s, ret |-> ret, panic |-> "none"]
SlotsPanic(s, why) == [slots |-> s, ret |-> NoValue, panic |-> why]

\* Option: None is NoValue, Some(v) is v.
Some(v) == v

MutableSlots_new == <<>>

\* get_slot that hands out whatever the slot holds.
get_slot_Raw(s, slot) ==
    IF ~(slot < Len(s)) THEN SlotsPanic(s, "index out of bounds")
    ELSE SlotsReturn(s, Some(s[slot + 1]))

get_slot(s, slot) ==
    IF ~(slot < Len(s)) THEN SlotsPanic(s, "index out of bounds")
    ELSE LET v == s[slot + 1]
         IN  SlotsReturn(s, IF is_unassigned(v) THEN NoValue ELSE Some(v))

\* set_slot without the assertion on the value.
set_slot_Unchecked(s, slot, value) ==
    IF ~(slot < Len(s)) THEN SlotsPanic(s, "index out of bounds")
    ELSE SlotsReturn([s EXCEPT ![slot + 1] = value], NoValue)

set_slot(s, slot, value) ==
    IF ~(~is_unassigned(value)) THEN SlotsPanic(s, "!value.is_unassigned()")
    ELSE IF ~(slot < Len(s)) THEN SlotsPanic(s, "index out of bounds")
    ELSE SlotsReturn([s EXCEPT ![slot + 1] = value], NoValue)

\* ensure_slots that makes the table exactly count long.
ensure_slots_Exact(s, count) ==
    SlotsReturn([i \in 1..count |-> IF i <= Len(s) THEN s[i] ELSE Unassigned],
                NoValue)

ensure_slots(s, count) ==
    IF Len(s) >= count THEN SlotsReturn(s, NoValue)
    ELSE LET extra == count - Len(s)
         IN  SlotsReturn(s \o [k \in 1..extra |-> Unassigned], NoValue)

ensure_slot(s, slot) == ensure_slots(s, slot + 1)

\* freeze that keeps the assigned slots only.
MutableSlots_freeze_Compacts(s) ==
    LET RECURSIVE Kept(_)
        Kept(k) == IF k = 0 THEN <<>>
                   ELSE IF is_unassigned(s[k]) THEN Kept(k - 1)
                   ELSE Append(Kept(k - 1), Value_freeze(s[k]))
    IN  SlotsReturn(Kept(Len(s)), NoValue)

\* freeze(self): the vector mapped through Value::freeze, slot by slot.
MutableSlots_freeze(s) ==
    SlotsReturn([i \in 1..Len(s) |-> Value_freeze(s[i])], NoValue)

FrozenSlots_get_slot(fs, slot) ==
    IF ~(slot < Len(fs)) THEN SlotsPanic(fs, "index out of bounds")
    ELSE LET fv == fs[slot + 1]
         IN  SlotsReturn(fs, IF is_unassigned(fv) THEN NoValue ELSE Some(fv))

(***************************************************************************)
(* The program around a slot table: it makes one, calls its operations     *)
(* with indices inside and one past the largest table, takes the RefMut of *)
(* get_slots_mut, writes through it and drops it, freezes the table and    *)
(* reads the frozen table.  A panic ends the program.                      *)
(***************************************************************************)

SlotVals == {Imm(1), Mut(1)}
SlotIds == 0..MaxSlots
NeverSet == [i \in SlotIds |-> NoValue]

\* No table holds NoValue: the sequence of it alone stands for no table.
NoSlots == <<NoValue>>
HasSlots == slots # NoSlots
HasFrozenSlots == frozen_slots # NoSlots

\* RefCell::borrow and RefCell::borrow_mut panic while a RefMut is alive;
\* otherwise the operation r goes on.
RefCell_borrow(s, r) ==
    IF borrow.mut THEN SlotsPanic(s, "already mutably borrowed") ELSE r
RefCell_borrow_mut(s, r) ==
    IF borrow.mut THEN SlotsPanic(s, "already borrowed") ELSE r

SlotsCall(op, args, r) ==
    /\ slots' = r.slots
    /\ call' = Call(op, args, r.ret, r.panic)

NewSlots ==
    /\ ~HasSlots /\ ~HasFrozenSlots /\ call = NoValue
    /\ slots' = MutableSlots_new
    /\ last_set' = NeverSet
    /\ call' = Call("MutableSlots::new", <<>>, NoValue, "none")
    /\ UNCHANGED <<heapVars, moreVars, arrayVars, nums, frozen_slots, borrow>>

CallGetSlot ==
    /\ HasSlots /\ Alive
    /\ \E slot \in SlotIds :
          SlotsCall("get_slot", <<slot>>,
                    RefCell_borrow(slots, get_slot(slots, slot)))
    /\ UNCHANGED <<heapVars, moreVars, arrayVars, nums, frozen_slots, last_set, borrow>>

\* set_slot asserts on the value before it borrows the vector.
CallSetSlot ==
    /\ HasSlots /\ Alive
    /\ \E slot \in SlotIds, value \in SlotVals \cup {Unassigned} :
          LET r == IF is_unassigned(value) THEN set_slot(slots, slot, value)
                   ELSE RefCell_borrow_mut(slots, set_slot(slots, slot, value))
          IN  /\ SlotsCall("set_slot", <<slot, value>>, r)
              /\ last_set' = IF r.panic = "none"
                             THEN [last_set EXCEPT ![slot] = value]
                             ELSE last_set
    /\ UNCHANGED <<heapVars, moreVars, arrayVars, nums, frozen_slots, borrow>>

CallEnsureSlot ==
    /\ HasSlots /\ Alive
    /\ \E slot \in 0..(MaxSlots - 1) :
          SlotsCall("ensure_slot", <<slot>>,
                    RefCell_borrow_mut(slots, ensure_slot(slots, slot)))
    /\ UNCHANGED <<heapVars, moreVars, arrayVars, nums, frozen_slots, last_set, borrow>>

CallEnsureSlots ==
    /\ HasSlots /\ Alive
    /\ \E count \in 0..MaxSlots :
          SlotsCall("ensure_slots", <<count>>,
                    RefCell_borrow_mut(slots, ensure_slots(slots, count)))
    /\ UNCHANGED <<heapVars, moreVars, arrayVars, nums, frozen_slots, last_set, borrow>>

\* get_slots_mut(): self.0.borrow_mut(); the RefMut is alive until dropped.
CallGetSlotsMut ==
    /\ HasSlots /\ Alive
    /\ LET r == RefCell_borrow_mut(slots, SlotsReturn(slots, NoValue))
       IN  /\ SlotsCall("get_slots_mut", <<>>, r)
           /\ borrow' = IF r.panic = "none" THEN [borrow EXCEPT !.mut = TRUE]
                        ELSE borrow
    /\ UNCHANGED <<heapVars, moreVars, arrayVars, nums, frozen_slots, last_set>>

\* The RefMut that get_slots_mut returns derefs to the Vec of the table:
\* its holder stores a value in a slot, the sentinel too, pushes a value or
\* truncates the vector.
RefMutWrite ==
    /\ HasSlots /\ Alive /\ borrow.mut
    /\ \E i \in 1..Len(slots), value \in SlotVals \cup {Unassigned} :
          slots' = [slots EXCEPT ![i] = value]
    /\ borrow' = [borrow EXCEPT !.written = TRUE]
    /\ UNCHANGED <<heapVars, moreVars, arrayVars, nums, frozen_slots, last_set, call>>

RefMutPush ==
    /\ HasSlots /\ Alive /\ borrow.mut
    /\ Len(slots) < MaxSlots
    /\ \E value \in SlotVals \cup {Unassigned} : slots' = Append(slots, value)
    /\ borrow' = [borrow EXCEPT !.written = TRUE]
    /\ UNCHANGED <<heapVars, moreVars, arrayVars, nums, frozen_slots, last_set, call>>

RefMutTruncate ==
    /\ HasSlots /\ Alive /\ borrow.mut
    /\ \E n \in 0..(Len(slots) - 1) : slots' = SubSeq(slots, 1, n)
    /\ borrow' = [borrow EXCEPT !.written = TRUE]
    /\ UNCHANGED <<heapVars, moreVars, arrayVars, nums, frozen_slots, last_set, call>>

\* The RefMut of get_slots_mut is dropped.
RefMutDrop ==
    /\ HasSlots /\ Alive /\ borrow.mut
    /\ borrow' = [borrow EXCEPT !.mut = FALSE]
    /\ UNCHANGED <<heapVars, moreVars, arrayVars, nums, slots, frozen_slots, last_set, call>>

\* freeze takes the table by value: no RefMut of it is alive, and the
\* mutable table is gone afterwards.
FreezeSlots ==
    /\ HasSlots /\ Alive /\ ~borrow.mut
    /\ LET r == MutableSlots_freeze(slots)
       IN  /\ frozen_slots' = r.slots
           /\ call' = Call("freeze", <<>>, NoValue, r.panic)
    /\ slots' = NoSlots
    /\ UNCHANGED <<heapVars, moreVars, arrayVars, nums, last_set, borrow>>

CallFrozenGetSlot ==
    /\ HasFrozenSlots /\ Alive
    /\ \E slot \in SlotIds :
          LET r == FrozenSlots_get_slot(frozen_slots, slot)
          IN  call' = Call("FrozenSlots::get_slot", <<slot>>, r.ret, r.panic)
    /\ UNCHANGED <<heapVars, moreVars, arrayVars, nums, slots, frozen_slots, last_set, borrow>>

SlotsNext ==
    \/ NewSlots
    \/ CallGetSlot
    \/ CallSetSlot
    \/ CallEnsureSlot
    \/ CallEnsureSlots
    \/ CallGetSlotsMut
    \/ RefMutWrite
    \/ RefMutPush
    \/ RefMutTruncate
    \/ RefMutDrop
    \/ FreezeSlots
    \/ CallFrozenGetSlot

SlotsSpec == FreezeInit /\ [][SlotsNext]_vars

(***************************************************************************)
(* Numbers: values/num.rs.  An i32 is an integer of TLA+.  An f64 is its   *)
(* bits: the sign, the 11 bits of the biased exponent and the 52 bits of   *)
(* the mantissa as <<4 bits, 16 bits, 16 bits, 16 bits>>, most significant *)
(* first.  A u64 is four limbs of 16 bits, most significant first.         *)
(***************************************************************************)

MaxI32 == 2147483647
MinI32 == -MaxI32 - 1
Limb == 2^16
ExpBias == 2^10 - 1
ExpMax == 2^11 - 1

F64(sign, exp, mant) == [sign |-> sign, exp |-> exp, mant |-> mant]
NoBits == <<0, 0, 0, 0>>
PosZero == F64(0, 0, NoBits)

is_nan(f) == f.exp = ExpMax /\ f.mant # NoBits
is_infinite(f) == f.exp = ExpMax /\ f.mant = NoBits
IsZero(f) == f.exp = 0 /\ f.mant = NoBits

\* f == g of f64: a NaN equals nothing, the two zeros are equal.
F64Eq(f, g) ==
    /\ ~is_nan(f)
    /\ ~is_nan(g)
    /\ f = g \/ (IsZero(f) /\ IsZero(g))

\* f64::to_bits
to_bits(f) ==
    <<f.sign * 2^15 + f.exp * 2^4 + f.mant[1], f.mant[2], f.mant[3], f.mant[4]>>

\* The 30 most significant bits of a mantissa, and the mantissa that has
\* them and nothing below.
Top30(mant) == mant[1] * 2^26 + mant[2] * 2^10 + (mant[3] \div 2^6)
MantOfTop30(t) == <<t \div 2^26, (t \div 2^10) % Limb, (t % 2^10) * 2^6, 0>>

\* The position of the leading bit of a, 1 <= a < 2^31.
Log2(a) == CHOOSE e \in 0..30 : 2^e <= a /\ (e = 30 \/ a < 2^(e + 1))

\* i as f64: exact for every i32.
I32AsF64(i) ==
    IF i = 0 THEN PosZero
    ELSE IF i = MinI32 THEN F64(1, ExpBias + 31, NoBits)
    ELSE LET a == IF i < 0 THEN -i ELSE i
             e == Log2(a)
         IN  F64(IF i < 0 THEN 1 ELSE 0, ExpBias + e,
                 MantOfTop30((a - 2^e) * 2^(30 - e)))

\* f as i32: NaN gives 0, the fraction is cut off, and the result saturates
\* at the ends of i32.
F64AsI32(f) ==
    IF is_nan(f) THEN 0
    ELSE IF f.exp < ExpBias THEN 0
    ELSE IF f.exp - ExpBias >= 31
         THEN IF f.sign = 1 THEN MinI32 ELSE MaxI32
    ELSE LET e == f.exp - ExpBias
             a == 2^e + (Top30(f.mant) \div 2^(30 - e))
         IN  IF f.sign = 1 THEN -a ELSE a

\* i as u64: sign extension.
I32AsU64(i) ==
    IF i >= 0 THEN <<0, 0, i \div Limb, i % Limb>>
    ELSE LET m == -(i + 1)
         IN  <<Limb - 1, Limb - 1, Limb - 1 - (m \div Limb), Limb - 1 - (m % Limb)>>

U64_MAX == <<Limb - 1, Limb - 1, Limb - 1, Limb - 1>>

\* enum Num
Num_Int(i) == [tag |-> "Int", v |-> i]
Num_Float(f) == [tag |-> "Float", v |-> f]

\* Option<i32>
SomeInt(i) == [is_some |-> TRUE, v |-> i]
NoInt == [is_some |-> FALSE, v |-> 0]

as_float(n) == IF n.tag = "Int" THEN I32AsF64(n.v) ELSE n.v

\* as_int that knows no float for an int.
as_int_IntsOnly(n) == IF n.tag = "Int" THEN SomeInt(n.v) ELSE NoInt

as_int(n) ==
    IF n.tag = "Int" THEN SomeInt(n.v)
    ELSE LET f == n.v
             int_candidate == F64AsI32(f)
         IN  IF F64Eq(f, I32AsF64(int_candidate))
             THEN SomeInt(int_candidate)
             ELSE NoInt

get_hash_64(n) ==
    LET i == as_int(n)
    IN  IF i.is_some THEN I32AsU64(i.v)
        ELSE IF n.tag = "Float"
             THEN IF is_nan(n.v) THEN I32AsU64(0)
                  ELSE IF is_infinite(n.v) THEN U64_MAX
                  ELSE IF F64Eq(n.v, PosZero) THEN to_bits(PosZero)
                  ELSE to_bits(n.v)
        ELSE I32AsU64(n.v)

\* StarlarkHashValue::hash_64: the low 32 bits.
hash_64(h) == <<h[3], h[4]>>

get_hash(n) == hash_64(get_hash_64(n))

(***************************************************************************)
(* The program around the numbers: it hashes an int and the float made of  *)
(* it, or any two numbers, and keeps both with their hashes.               *)
(***************************************************************************)

IntInputs ==
    (-MaxNum..MaxNum)
       \cup {42, -42, 2^16 - 1, 2^16, -(2^16), 2^24 + 1, 2^30, -(2^30) - 1,
             MaxI32 - 1, MaxI32, MinI32 + 1, MinI32}

FloatInputs ==
    {I32AsF64(i) : i \in {0, 1, -1, MaxNum, 42, -42, 2^16, MaxI32, MinI32}}
       \cup {F64(1, 0, NoBits),                                \* -0.0
             F64(0, ExpMax, NoBits), F64(1, ExpMax, NoBits),   \* inf, -inf
             F64(0, ExpMax, <<8, 0, 0, 0>>),                   \* NaN
             F64(1, ExpMax, <<8, 0, 0, 0>>),                   \* -NaN
             F64(0, ExpMax, <<0, 0, 0, 1>>),                   \* NaN, payload
             F64(0, ExpBias - 2, NoBits),                      \* 0.25
             F64(0, ExpBias + 5, MantOfTop30(43 * 2^23)),      \* 42.75
             F64(1, ExpBias + 5, MantOfTop30(43 * 2^23)),      \* -42.75
             F64(0, ExpBias, <<0, 0, 0, 1>>),                  \* 1 + 2^-52
             F64(0, 0, <<0, 0, 0, 1>>),                        \* least float
             F64(0, ExpBias + 31, NoBits),                     \* 2^31
             F64(1, ExpBias + 31, MantOfTop30(1)),             \* below i32
             F64(0, ExpMax - 1, <<15, Limb - 1, Limb - 1, Limb - 1>>)}  \* MAX

NumInputs == {Num_Int(i) : i \in IntInputs} \cup {Num_Float(f) : f \in FloatInputs}

Hashed(n) == [num |-> n, hash_64 |-> get_hash_64(n), hash |-> get_hash(n)]

\* Hash Int(i) and Float(i as f64).
HashIntAndFloat ==
    /\ \E i \in IntInputs :
          nums' = <<Hashed(Num_Int(i)), Hashed(Num_Float(as_float(Num_Int(i))))>>
    /\ UNCHANGED <<heapVars, moreVars, arrayVars, slotVars, call>>

\* Hash two numbers.
HashNums ==
    /\ \E a \in NumInputs, b \in NumInputs :
          nums' = <<Hashed(a), Hashed(b)>>
    /\ UNCHANGED <<heapVars, moreVars, arrayVars, slotVars, call>>

NumNext ==
    \/ HashIntAndFloat
    \/ HashNums

NumSpec == FreezeInit /\ [][NumNext]_vars

(***************************************************************************)
(* Values behind a handle: values/traits.rs and values/layout/avalue.rs.   *)
(* A handle points at an AValueImpl<Mode, T> wrapping a payload of type T, *)
(* or at a BlackHole.  A payload type has a type identity (the TypeId of   *)
(* the Rust type) and a type name (get_type): Partial and FrozenPartial    *)
(* are two types with the one name "function".  The result of an           *)
(* operation is what it returned, the error it returned, or a panic.       *)
(***************************************************************************)
V(tag, a) == [tag |-> tag, a |-> a]

NoErr == [error |-> "none", op |-> "", types |-> <<>>]
ROk(v) == [tag |-> "ok", val |-> v, err |-> NoErr]
RErr(e) == [tag |-> "err", val |-> NoValue, err |-> e]
RPanic == [tag |-> "panic", val |-> NoValue, err |-> NoErr]

\* ValueError::unsupported(self, op), unsupported_with(self, op, other) and
\* unsupported_owned(left, op, Some(right)): the operator and the type names.
unsupported(typ, op) ==
    RErr([error |-> "OperationNotSupported", op |-> op, types |-> <<typ>>])
unsupported_owned(left, op, right) ==
    RErr([error |-> "OperationNotSupportedBinary", op |-> op, types |-> <<left, right>>])
unsupported_with(typ, op, other_typ) == unsupported_owned(typ, op, other_typ)

FUNCTION_TYPE == "function"

\* The types of payload: starlark_type!(..) of each, and the operations the
\* type writes itself.
get_type(T) ==
    CASE T = "Array" -> "array"
      [] T = "Partial" -> FUNCTION_TYPE
      [] T = "FrozenPartial" -> FUNCTION_TYPE
      [] T = "NoSimpleValue" -> "no_simple_value"

\* T::static_type_id(): the TypeId of the Rust type, one for each type.
static_type_id(T) == V("TypeId", CASE T = "Array" -> 1
                                   [] T = "Partial" -> 2
                                   [] T = "FrozenPartial" -> 3
                                   [] T = "NoSimpleValue" -> 4)

\* The hasher is the sequence of what was written to it.
StarlarkHasher_new == <<>>
finish_small(hasher) == V("hash", Len(hasher))

WriteHashed(r, hasher) == [tag |-> r.tag, val |-> r.val, err |-> r.err, hasher |-> hasher]

\* write_hash that takes every type without a hash of its own for hashable
\* and writes its name.
write_hash_WritesName(T, hasher) ==
    WriteHashed(ROk(NoValue), Append(hasher, get_type(T)))

\* StarlarkValue::write_hash, the default.
write_hash(T, hasher) ==
    IF get_type(T) = FUNCTION_TYPE
    THEN WriteHashed(ROk(NoValue), hasher)
    ELSE WriteHashed(RErr([error |-> "NotHashableValue", op |-> "",
                       types |-> <<get_type(T)>>]), hasher)

\* AValue::get_hash, the default.
AValue_get_hash(T) ==
    LET r == write_hash(T, StarlarkHasher_new)
    IN  IF r.tag = "err" THEN RErr(r.err) ELSE ROk(finish_small(r.hasher))

\* The operator a default names in its error.
UnaryOps ==
    [to_int |-> "int()", invoke |-> "call()", slice |-> "[::]",
     iterate |-> "(iter)", with_iterator |-> "(iter)", length |-> "len()",
     plus |-> "+", minus |-> "-", set_attr |-> ".attr="]
BinaryOps ==
    [compare |-> "compare", at |-> "[]", add |-> "+", sub |-> "-",
     mul |-> "*", div |-> "/", percent |-> "%", floor_div |-> "//",
     bit_and |-> "&", bit_or |-> "|", bit_xor |-> "^",
     left_shift |-> "<<", right_shift |-> ">>"]
AnswerOps ==
    [get_methods |-> V("None", 0),
     documentation |-> V("None", 0), collect_repr |-> V("Display", 0),
     collect_repr_cycle |-> V("...", 0), to_bool |-> V("bool", 1),
     extra_memory |-> V("int", 0), equals |-> V("bool", 0),
     get_attr |-> V("None", 0), has_attr |-> V("bool", 0),
     dir_attr |-> V("Vec", 0), radd |-> V("None", 0), export_as |-> V("unit", 0)]

\* The defaults of trait StarlarkValue, with a default compare that takes
\* any two values for equal.
StarlarkValue_default_Comparable(T, op, other) ==
    CASE op = "compare" -> ROk(V("Equal", 0))
      [] op \in DOMAIN UnaryOps -> unsupported(get_type(T), UnaryOps[op])
      [] op \in DOMAIN BinaryOps \ {"compare"} ->
           unsupported_with(get_type(T), BinaryOps[op], get_type(other))
      [] op = "is_in" -> unsupported_owned(get_type(other), "in", get_type(T))
      [] op = "invoke_method" -> RPanic
      [] op = "set_at" ->
           RErr([error |-> "CannotMutateImmutableValue", op |-> "", types |-> <<>>])
      [] op = "matches_type" ->
           ROk(V("bool", IF get_type(T) = get_type(other) THEN 1 ELSE 0))
      [] op \in DOMAIN AnswerOps -> ROk(AnswerOps[op])

\* The defaults of trait StarlarkValue.  T is the type of self, other the
\* type of the other operand (for matches_type, the type whose name is
\* asked for).
StarlarkValue_default(T, op, other) ==
    CASE op \in DOMAIN UnaryOps -> unsupported(get_type(T), UnaryOps[op])
      [] op \in DOMAIN BinaryOps ->
           unsupported_with(get_type(T), BinaryOps[op], get_type(other))
      [] op = "is_in" -> unsupported_owned(get_type(other), "in", get_type(T))
      [] op = "invoke_method" -> RPanic
      [] op = "set_at" ->
           RErr([error |-> "CannotMutateImmutableValue", op |-> "", types |-> <<>>])
      [] op = "matches_type" ->
           ROk(V("bool", IF get_type(T) = get_type(other) THEN 1 ELSE 0))
      [] op \in DOMAIN AnswerOps -> ROk(AnswerOps[op])

StarlarkValueOps ==
    DOMAIN UnaryOps \cup DOMAIN BinaryOps \cup DOMAIN AnswerOps
       \cup {"is_in", "invoke_method", "set_at", "matches_type"}

\* The operations a type writes itself: Array its length, a partial its
\* call.
Overrides(T) ==
    CASE T = "Array" -> {"length"}
      [] T \in {"Partial", "FrozenPartial"} -> {"invoke"}
      [] OTHER -> {}

\* A field of a partial is frozen: Value::freeze or Freezer::freeze returns
\* the frozen image, or an error for the values of bad.
FreezeError(field) == [error |-> "freeze", op |-> field, types |-> <<>>]
FieldFreezes(vs, bad) == \A i \in 1..Len(vs) : vs[i] \notin bad
Frozen(r, h) == [tag |-> r.tag, val |-> r.val, err |-> r.err, frozen |-> h]

\* Freeze for Partial: func, pos, the named values and the names are frozen
\* in this order, the first error is returned, and with no error the image
\* is a FrozenPartial of the frozen fields.  A name is a symbol and a string
\* value: the string value is frozen.
Partial_freeze(h, bad) ==
    LET x == h.payload
    IN  IF x.func \in bad THEN Frozen(RErr(FreezeError("func")), NoValue)
        ELSE IF x.pos \in bad THEN Frozen(RErr(FreezeError("pos")), NoValue)
        ELSE IF ~FieldFreezes(x.named, bad)
        THEN Frozen(RErr(FreezeError("named")), NoValue)
        ELSE IF ~FieldFreezes([i \in 1..Len(x.names) |-> x.names[i][2]], bad)
        THEN Frozen(RErr(FreezeError("names")), NoValue)
        ELSE Frozen(ROk(NoValue),
                    [type |-> "FrozenPartial",
                     payload |->
                        [func |-> Value_freeze(x.func),
                         pos |-> Value_freeze(x.pos),
                         named |-> [i \in 1..Len(x.named) |-> Value_freeze(x.named[i])],
                         names |-> [i \in 1..Len(x.names) |->
                                       <<x.names[i][1], Value_freeze(x.names[i][2])>>]]])

Handle(T, payload) == [type |-> T, payload |-> payload]

ArrayOf(items) == extend_from_slice(Array_new(0, Len(items)), FALSE, items).array

\* The heap the values of a call are in.  A value is a pointer, and what it
\* points at is: a native function, the tuple (1,), a None, the string "k",
\* an empty array, and three partials: of the function with a named
\* argument, of the array, and of the first partial.  The frozen value
\* points at the frozen image.
PartialAt(a) ==
    CASE a = 6 -> [func |-> Mut(1), pos |-> Mut(2), named |-> <<Mut(3)>>,
                   names |-> <<<<"k", Mut(4)>>>>]
      [] a = 7 -> [func |-> Mut(5), pos |-> Mut(2), named |-> <<>>, names |-> <<>>]
      [] a = 8 -> [func |-> Mut(6), pos |-> Mut(2), named |-> <<>>, names |-> <<>>]
ValueAt(v) ==
    CASE v.a = 1 -> Handle("NativeFunction", 0)
      [] v.a = 2 -> Handle("Tuple", <<Imm(1)>>)
      [] v.a = 3 -> Handle("NoneType", 0)
      [] v.a = 4 -> Handle("String", "k")
      [] v.a = 5 -> Handle("Array", ArrayOf(<<>>))
      [] v.a \in 6..8 ->
           IF v.tag = "frozen"
           THEN Partial_freeze(Handle("Partial", PartialAt(v.a)), {}).frozen
           ELSE Handle("Partial", PartialAt(v.a))

RECURSIVE Value_fmt(_)

\* Display for PartialGen: func is written, then the content of pos (a
\* tuple, or the unwrap of pos_content panics), then the names and values.
PartialGen_fmt(x) ==
    IF Value_fmt(x.func).tag = "panic" THEN RPanic
    ELSE IF ValueAt(x.pos).type # "Tuple" THEN RPanic
    ELSE ROk(V("Display", 0))

\* Display of a value: that of what it points at.
Value_fmt(v) ==
    IF ValueAt(v).type \in {"Partial", "FrozenPartial"}
    THEN PartialGen_fmt(ValueAt(v).payload)
    ELSE ROk(V("Display", 0))

\* An operation of the payload other than invoke: the type's own, or the
\* default; the default collect_repr writes the Display of the payload.
\* invoke runs on an evaluator: StarlarkValue_invoke.
StarlarkValue_call(h, op, other) ==
    IF h.type = "Array" /\ op = "length" THEN ROk(V("int", Array_len(h.payload)))
    ELSE IF h.type \in {"Partial", "FrozenPartial"} /\ op = "collect_repr"
    THEN PartialGen_fmt(h.payload)
    ELSE StarlarkValue_default(h.type, op, other.type)

\* AValueDyn and StarlarkValueDyn for AValueImpl<Mode, T>: the operations
\* of the wrapper itself, and the operations that delegate to the payload.
WrapperOps ==
    StarlarkValueOps
       \cup {"get_type", "get_type_value", "static_type_of_value", "as_debug",
             "as_display", "value_as_dyn_any", "is_str", "get_hash"}

AValueImpl_call(h, op, other) ==
    CASE op \in {"get_type", "get_type_value"} -> ROk(V(get_type(h.type), 0))
      [] op = "static_type_of_value" -> ROk(static_type_id(h.type))
      [] op \in {"as_debug", "as_display", "value_as_dyn_any"} -> ROk(V("payload", 0))
      [] op = "is_str" -> ROk(V("bool", 0))
      [] op = "get_hash" -> AValue_get_hash(h.type)
      [] op \in StarlarkValueOps \ {"invoke"} -> StarlarkValue_call(h, op, other)

\* Every operation a handle has: those of AValueDyn and of StarlarkValueDyn.
BlackHoleOps ==
    WrapperOps
       \cup {"memory_size", "heap_freeze", "heap_copy", "write_hash", "serialize"}

\* A BlackHole that answers for its type.
BlackHole_call_Typed(h, op) ==
    CASE op = "memory_size" -> ROk(V("int", h.payload.size))
      [] op = "is_str" -> ROk(V("bool", 0))
      [] op \in {"as_debug", "as_display"} -> ROk(V("BlackHole", 0))
      [] op \in {"get_type", "get_type_value"} -> ROk(V("BlackHole", 0))
      [] OTHER -> RPanic

\* AValueDyn and StarlarkValueDyn for BlackHole(size).
BlackHole_call(h, op) ==
    CASE op = "memory_size" -> ROk(V("int", h.payload.size))
      [] op = "is_str" -> ROk(V("bool", 0))
      [] op \in {"as_debug", "as_display"} -> ROk(V("BlackHole", 0))
      [] op \in {"heap_freeze", "heap_copy", "get_hash"} -> RPanic   \* unreachable!()
      [] op \in BlackHoleOps -> RPanic                                \* panic!()

static_type_of_value(h) ==
    IF h.type = "BlackHole" THEN BlackHole_call(h, "static_type_of_value")
    ELSE AValueImpl_call(h, "static_type_of_value", h)

Downcast(r, v, payload) == [tag |-> r.tag, val |-> v, err |-> r.err, ref |-> payload]

\* downcast_ref that tells types by their name.
downcast_ref_ByName(h, B) ==
    LET t == static_type_of_value(h)
    IN  IF t.tag = "panic" THEN Downcast(t, NoValue, NoValue)
        ELSE IF get_type(h.type) = get_type(B)
             THEN Downcast(t, V("Some", 0), h.payload)
             ELSE Downcast(t, V("None", 0), NoValue)

\* <dyn AValueDyn>::downcast_ref::<B>()
downcast_ref(h, B) ==
    LET t == static_type_of_value(h)
    IN  IF t.tag = "panic" THEN Downcast(t, NoValue, NoValue)
        ELSE IF t.val = static_type_id(B)
             THEN Downcast(t, V("Some", 0), h.payload)
             ELSE Downcast(t, V("None", 0), NoValue)

(***************************************************************************)
(* invoke.  A call runs on an evaluator, which has a call stack and a      *)
(* def_info; acts is the stack of the calls in progress, innermost last.   *)
(***************************************************************************)
Snapshot(ev, s) == [call_stack |-> ev.call_stack, def_info |-> ev.def_info, slots |-> s]

Activation(fn, old_def_info, entry) ==
    [fn |-> fn, pc |-> "body", res |-> "none", old_def_info |-> old_def_info,
     entry |-> entry]

\* heap_strs are the strings allocated on the heap of the module for the
\* names of named arguments, in the order of their allocation; Str(n) is
\* the value that points at the n-th of them.
Str(n) == [tag |-> "str", a |-> n]
Evaluator_new == [call_stack |-> <<>>, def_info |-> 0, acts |-> <<>>, heap_strs |-> <<>>]

\* CallStack::push fails when the stack is full; CallStack::pop.
CallStack_push(frames, frame) ==
    IF Len(frames) >= MaxFrames THEN [ok |-> FALSE, frames |-> frames]
    ELSE [ok |-> TRUE, frames |-> Append(frames, frame)]
CallStack_pop(frames) == SubSeq(frames, 1, Len(frames) - 1)

\* A DefInfo allocated for the call that is being entered: no call in
\* progress has the same.
DefInfo_for_module(ev) == 2 * Len(ev.acts) + 1
DefInfo_for_function(ev) == 2 * Len(ev.acts) + 2

BodyError == [error |-> "eval", op |-> "", types |-> <<>>]
StackOverflow == [error |-> "StackOverflow", op |-> "", types |-> <<>>]

\* Arguments { pos, named, names, args: None, kwargs: None }
Arguments(pos, named, names) == [pos |-> pos, named |-> named, names |-> names]
NoArguments == Arguments(<<>>, <<>>, <<>>)

\* The outcome of an invoke: an error or a panic, or the body of a function
\* has been entered; params are the arguments of the innermost call.
Invoked(ev, ret, in_body, params) ==
    [evaluator |-> ev, ret |-> ret, in_body |-> in_body, params |-> params]

\* invoke of a function: its frame is pushed and def_info is the
\* function's, or the stack is full and the call returns an error.
Function_invoke(ev, s, params) ==
    LET pushed == CallStack_push(ev.call_stack, "function")
    IN  IF ~pushed.ok THEN Invoked(ev, RErr(StackOverflow), FALSE, params)
        ELSE Invoked([ev EXCEPT
                        !.call_stack = pushed.frames,
                        !.def_info = DefInfo_for_function(ev),
                        !.acts = Append(@, Activation("function", ev.def_info,
                                                      Snapshot(ev, s)))],
                     NoValue, TRUE, params)

\* The function returns: its frame is popped and def_info put back.
Function_return(ev) ==
    [ev EXCEPT !.call_stack = CallStack_pop(@),
               !.def_info = ev.acts[Len(ev.acts)].old_def_info,
               !.acts = SubSeq(@, 1, Len(@) - 1)]

RECURSIVE Value_invoke(_, _, _, _)

\* PartialGen::invoke: the content of pos (a tuple, or the unwrap panics),
\* named and names come first, the arguments of the call after them, and
\* the call is whatever the call of func with these arguments is.
PartialGen_invoke(x, args, ev, s) ==
    IF ValueAt(x.pos).type # "Tuple" THEN Invoked(ev, RPanic, FALSE, args)
    ELSE Value_invoke(x.func,
                      Arguments(ValueAt(x.pos).payload \o args.pos,
                                x.named \o args.named,
                                x.names \o args.names),
                      ev, s)

\* invoke of the payload: the type's own, or the default, an error.
StarlarkValue_invoke(h, args, ev, s) ==
    IF "invoke" \in Overrides(h.type) THEN PartialGen_invoke(h.payload, args, ev, s)
    ELSE Invoked(ev, StarlarkValue_default(h.type, "invoke", h.type), FALSE, args)

\* StarlarkValueDyn::invoke for AValueImpl<Mode, T> delegates to the payload.
AValueImpl_invoke(h, args, ev, s) == StarlarkValue_invoke(h, args, ev, s)

\* Value::invoke: the invoke of what the value points at.
Value_invoke(v, args, ev, s) ==
    LET h == ValueAt(v)
    IN  IF h.type = "NativeFunction" THEN Function_invoke(ev, s, args)
        ELSE AValueImpl_invoke(h, args, ev, s)

(***************************************************************************)
(* The program around the handles: it takes a handle and calls one         *)
(* operation on it.  No operation changes the handle, so one call from     *)
(* each handle is every call.                                              *)
(***************************************************************************)
\* partial(func, *pos, **named): func is the value the caller gave, a
\* function, an array or a partial; pos is the tuple of the positional
\* arguments.  The values are in the heap the partial is in, or frozen
\* already.
Partials ==
    {[func |-> f, pos |-> p, named |-> n[1], names |-> n[2]] :
        f \in {Mut(1), Frz(1), Mut(5), Mut(6)}, p \in {Mut(2), Frz(2)},
        n \in {<<<<>>, <<>>>>, <<<<Mut(3)>>, <<<<"k", Mut(4)>>>>>>}}
PartialValues(x) ==
    {x.func, x.pos} \cup {x.named[i] : i \in 1..Len(x.named)}
       \cup {x.names[i][2] : i \in 1..Len(x.names)}

PartialHandles == {Handle("Partial", x) : x \in Partials}
FrozenPartialHandles == {Partial_freeze(h, {}).frozen : h \in PartialHandles}

WrapperHandles ==
    {Handle("Array", ArrayOf(s)) : s \in ArrayItems}
       \cup PartialHandles \cup FrozenPartialHandles

\* BlackHole(size): the size of the record it stands in for.
BlackHoles == {Handle("BlackHole", [size |-> n]) : n \in {8, 16}}

Handles == WrapperHandles \cup BlackHoles

\* One operand of each type.
Others ==
    {Handle("Array", ArrayOf(<<>>))}
       \cup {Handle(T, [func |-> Frz(1), pos |-> Frz(2), named |-> <<>>, names |-> <<>>]) :
                T \in {"Partial", "FrozenPartial"}}

StaticTypes == {"Array", "Partial", "FrozenPartial", "NoSimpleValue"}

Hashers == {StarlarkHasher_new, <<"array">>}

Dispatch(h, op, other) ==
    IF h.type = "BlackHole" THEN BlackHole_call(h, op)
    ELSE AValueImpl_call(h, op, other)

Aborted(r) == IF r.tag = "panic" THEN "panic" ELSE "none"

CallOperation ==
    /\ call = NoValue
    /\ \E h \in Handles, other \in Others :
          \E op \in IF h.type = "BlackHole" THEN BlackHoleOps \ {"write_hash", "invoke"}
                    ELSE WrapperOps \ {"invoke"} :
             LET r == Dispatch(h, op, other)
             IN  call' = Call(op, <<h, other>>, r, Aborted(r))
    /\ UNCHANGED <<heapVars, moreVars, arrayVars, slotVars, nums>>

CallWriteHash ==
    /\ call = NoValue
    /\ \E h \in Handles, hasher \in Hashers :
          LET r == IF h.type = "BlackHole"
                   THEN WriteHashed(BlackHole_call(h, "write_hash"), hasher)
                   ELSE write_hash(h.type, hasher)
          IN  call' = Call("write_hash", <<h, hasher>>, r, Aborted(r))
    /\ UNCHANGED <<heapVars, moreVars, arrayVars, slotVars, nums>>

\* Hash a partial, freeze it, and hash the frozen image if there is one.
\* The values of bad are those that fail to freeze.
HashAcrossFreeze ==
    /\ call = NoValue
    /\ \E h \in PartialHandles :
          \E bad \in {{}} \cup {{v} : v \in PartialValues(h.payload)} :
             LET f == Partial_freeze(h, bad)
                 r == Dispatch(h, "get_hash", h)
             IN  call' = Call("freeze", <<h, bad>>,
                              [before |-> r,
                               freeze |-> f,
                               after |-> IF f.tag = "ok"
                                         THEN Dispatch(f.frozen, "get_hash", f.frozen)
                                         ELSE RErr(f.err)],
                              Aborted(r))
    /\ UNCHANGED <<heapVars, moreVars, arrayVars, slotVars, nums>>

\* What the call returns when the body that was entered ends with res.
Completed(r, res) ==
    IF ~r.in_body THEN r.ret
    ELSE IF res = "ok" THEN ROk(V("return", 0)) ELSE RErr(BodyError)
Received(r, params) == [tag |-> r.tag, val |-> r.val, err |-> r.err, params |-> params]

\* The arguments of a call, and an evaluator with so many calls in progress.
CallArguments ==
    {NoArguments, Arguments(<<Imm(2)>>, <<Imm(3)>>, <<<<"n", Frz(4)>>>>)}
EvaluatorAt(depth) == [Evaluator_new EXCEPT !.call_stack = [i \in 1..depth |-> "function"]]

\* invoke of a handle, on an evaluator with no frame or with a full stack;
\* a function that is entered runs to its end.
CallInvoke ==
    /\ call = NoValue
    /\ \E h \in Handles, args \in CallArguments, depth \in {0, MaxFrames},
          res \in {"ok", "err"} :
          LET r == IF h.type = "BlackHole"
                   THEN Invoked(EvaluatorAt(depth), BlackHole_call(h, "invoke"),
                                FALSE, args)
                   ELSE AValueImpl_invoke(h, args, EvaluatorAt(depth), slots)
              ret == Completed(r, res)
          IN  call' = Call("invoke", <<h, args, depth>>, Received(ret, r.params),
                           Aborted(ret))
    /\ UNCHANGED <<heapVars, moreVars, arrayVars, slotVars, nums>>

CallDowncastRef ==
    /\ call = NoValue
    /\ \E h \in Handles, B \in StaticTypes :
          LET r == downcast_ref(h, B)
          IN  call' = Call("downcast_ref", <<h, B>>, r, Aborted(r))
    /\ UNCHANGED <<heapVars, moreVars, arrayVars, slotVars, nums>>

ValueNext ==
    \/ CallOperation
    \/ CallWriteHash
    \/ HashAcrossFreeze
    \/ CallInvoke
    \/ CallDowncastRef

ValueSpec == FreezeInit /\ [][ValueNext]_vars

(***************************************************************************)
(* Evaluation of a module: eval/mod.rs.  The evaluator has a call stack    *)
(* and a def_info, and its module has the slot table.  eval_module checks  *)
(* the scopes, sets the world up, runs the body and puts the world back.   *)
(* The body is the compiler's: it calls functions, each of which pushes a  *)
(* frame and pops it, and a native function may evaluate a module itself.  *)
(* acts is the stack of the calls in progress, innermost last.             *)
(***************************************************************************)
StaticError == [error |-> "scope", op |-> "", types |-> <<>>]

Setup(ev, s, ret, panic, in_body) ==
    [evaluator |-> ev, slots |-> s, ret |-> ret, panic |-> panic, in_body |-> in_body]

\* eval_module up to the evaluation of the body: the static error is
\* returned, or the slots are ensured, def_info is replaced and the frame
\* of the module is pushed.
eval_module_set_up(ev, s, scope_error, module_slots) ==
    IF scope_error THEN Setup(ev, s, RErr(StaticError), "none", FALSE)
    ELSE LET ensured == RefCell_borrow_mut(s, ensure_slots(s, module_slots))
             grown == ensured.slots
             old_def_info == ev.def_info
             replaced == [ev EXCEPT !.def_info = DefInfo_for_module(ev)]
             pushed == CallStack_push(replaced.call_stack, "module")
         IN  IF ensured.panic # "none"
             THEN Setup(ev, s, RPanic, ensured.panic, FALSE)
             ELSE IF ~pushed.ok
             THEN Setup(replaced, grown, RPanic, "unwrap", FALSE)
             ELSE Setup([replaced EXCEPT
                           !.call_stack = pushed.frames,
                           !.acts = Append(@, Activation("eval_module", old_def_info,
                                                         Snapshot(ev, s)))],
                        grown, NoValue, "none", TRUE)

TopAct(ev) == ev.acts[Len(ev.acts)]
Leave(ev) == [ev EXCEPT !.acts = SubSeq(@, 1, Len(@) - 1)]

\* The end of eval_module with the ? operator on the result of the body: an
\* error returns at once.
eval_module_clean_up_Question(ev) ==
    IF TopAct(ev).res = "err" THEN Leave(ev)
    ELSE Leave([ev EXCEPT !.call_stack = CallStack_pop(@),
                          !.def_info = TopAct(ev).old_def_info])

\* eval_module after the body: the frame is popped and def_info put back.
eval_module_clean_up(ev) ==
    Leave([ev EXCEPT !.call_stack = CallStack_pop(@),
                     !.def_info = TopAct(ev).old_def_info])

HasEvaluator == evaluator # NoValue
InBody == evaluator.acts # <<>> /\ TopAct(evaluator).pc = "body"
AtDone(fn) ==
    /\ evaluator.acts # <<>>
    /\ TopAct(evaluator).pc = "done"
    /\ TopAct(evaluator).fn = fn

\* The result of a call reaches its caller, the body of the call around it:
\* an error of a function is the error of the body.
Deliver(ev, res) ==
    IF ev.acts # <<>> /\ res = "err" /\ TopAct(ev).pc = "body"
    THEN [ev EXCEPT !.acts[Len(ev.acts)].pc = "done", !.acts[Len(ev.acts)].res = "err"]
    ELSE ev

NewEvaluator ==
    /\ ~HasEvaluator
    /\ evaluator' = Evaluator_new
    /\ slots' = MutableSlots_new
    /\ UNCHANGED <<heapVars, arrayVars, nums, call, frozen_slots, last_set, borrow, threads>>

\* eval_module is called, by the embedder or by a native function that the
\* body called.
EvalModule ==
    /\ HasEvaluator /\ Alive
    /\ IF evaluator.acts = <<>> THEN TRUE ELSE InBody
    /\ \E scope_error \in BOOLEAN, module_slots \in 0..MaxSlots :
          LET r == eval_module_set_up(evaluator, slots, scope_error, module_slots)
          IN  /\ evaluator' = r.evaluator
              /\ slots' = r.slots
              /\ call' = IF r.in_body THEN call
                         ELSE Call("eval_module", <<Snapshot(evaluator, slots)>>,
                                   r.ret, r.panic)
    /\ UNCHANGED <<heapVars, arrayVars, nums, frozen_slots, last_set, borrow, threads>>

\* eval_function(function, positional, named): each name of a named
\* argument is allocated as a new string on the heap, then the value is
\* invoked on this evaluator with the positional values, the named values
\* and the names, each with its string.
eval_function(ev, s, function, positional, named) ==
    LET names == [i \in 1..Len(named) |->
                    <<named[i][1], Str(Len(ev.heap_strs) + i)>>]
        allocated == [ev EXCEPT
                        !.heap_strs = @ \o [i \in 1..Len(named) |-> named[i][1]]]
        params == Arguments(positional, [i \in 1..Len(named) |-> named[i][2]], names)
    IN  Value_invoke(function, params, allocated, s)

\* The values eval_function is called on.
Functions == {Mut(1), Mut(5), Mut(6), Frz(7), Mut(8)}

\* eval_function is called, by the embedder or by a native function that
\* the body called.
EvalFunction ==
    /\ HasEvaluator /\ Alive
    /\ IF evaluator.acts = <<>> THEN TRUE ELSE InBody
    /\ \E function \in Functions, named \in {<<>>, <<<<"n", Imm(1)>>>>} :
          /\ Len(evaluator.heap_strs) + Len(named) <= MaxStrs
          /\ LET r == eval_function(evaluator, slots, function, <<Imm(2)>>, named)
             IN  /\ evaluator' = r.evaluator
                 /\ call' = IF r.in_body THEN call
                            ELSE Call("eval_function", <<Snapshot(evaluator, slots)>>,
                                      r.ret, Aborted(r.ret))
    /\ UNCHANGED <<heapVars, arrayVars, nums, slotVars, threads>>

\* The body calls a function: its frame is pushed and def_info is the
\* function's.
BodyCall ==
    /\ HasEvaluator /\ Alive
    /\ InBody
    /\ LET r == Function_invoke(evaluator, slots, NoArguments)
       IN  /\ r.in_body
           /\ evaluator' = r.evaluator
    /\ UNCHANGED <<heapVars, arrayVars, nums, call, slotVars, threads>>

\* The body ends, with a value or with an error.
BodyEnd ==
    /\ HasEvaluator /\ Alive
    /\ InBody
    /\ \E res \in {"ok", "err"} :
          evaluator' = [evaluator EXCEPT !.acts[Len(evaluator.acts)].pc = "done",
                                         !.acts[Len(evaluator.acts)].res = res]
    /\ UNCHANGED <<heapVars, arrayVars, nums, call, slotVars, threads>>

\* A function returns: its frame is popped and def_info put back.
FunctionReturn ==
    /\ HasEvaluator /\ Alive
    /\ AtDone("function")
    /\ evaluator' = Deliver(Function_return(evaluator), TopAct(evaluator).res)
    /\ UNCHANGED <<heapVars, arrayVars, nums, call, slotVars, threads>>

\* eval_module returns what the body returned.
EvalModuleReturn ==
    /\ HasEvaluator /\ Alive
    /\ AtDone("eval_module")
    /\ LET a == TopAct(evaluator)
       IN  /\ evaluator' = eval_module_clean_up(evaluator)
           /\ call' = Call("eval_module", <<a.entry>>,
                           IF a.res = "ok" THEN ROk(NoValue) ELSE RErr(BodyError),
                           "none")
    /\ UNCHANGED <<heapVars, arrayVars, nums, slotVars, threads>>

EvalNext ==
    \/ NewEvaluator
    \/ EvalModule
    \/ EvalFunction
    \/ BodyCall
    \/ BodyEnd
    \/ FunctionReturn
    \/ EvalModuleReturn

EvalSpec == FreezeInit /\ [][EvalNext]_vars

(***************************************************************************)
(* Vocabulary of the properties.                                           *)
(***************************************************************************)
\* The root the caller handed to the pass.
Root == stack[1].content[1]
Live == 1..Len(orig)
Range(seq) == {seq[i] : i \in 1..Len(seq)}

\* The values a record of the arena h refers to: for a list, the elements
\* of its array.
Refs(h, p) == IF h[p].kind = "list" THEN Range(ListContent(h, p)) ELSE Range(h[p].content)

RECURSIVE ReachFrom(_, _)
ReachFrom(h, S) ==
    LET T == S \cup {v.a : v \in {w \in UNION {Refs(h, p) : p \in S} : w.tag = "mut"}}
    IN  IF T = S THEN S ELSE ReachFrom(h, T)

\* The heap values reachable from value v in the arena h.
Reach(h, v) == IF v.tag = "mut" THEN ReachFrom(h, {v.a}) ELSE {}

\* The image of a value under the forwarding records of the arena.
Img(v) == IF v.tag = "mut" THEN heap[v.a].to ELSE v

Done == pc = "done"
DoneOk == pc = "done" /\ result.tag = "ok"
DoneErr == pc = "done" /\ result.tag = "err"
InPass == pc \in {"run", "unwind"}

\* A list and a tuple of the original heap that contain each other.
Cycle(l, t) ==
    /\ orig[l].kind = "list"
    /\ orig[t].kind = "tuple"
    /\ Mut(t) \in Refs(orig, l)
    /\ Mut(l) \in Refs(orig, t)

RECURSIVE SumFrames(_)
SumFrames(stk) ==
    IF stk = <<>>
    THEN 0
    ELSE SumFrames(SubSeq(stk, 1, Len(stk) - 1))
         + (Len(stk[Len(stk)].content) - stk[Len(stk)].i + 2)

\* What is left to do of a pass: the records not yet forwarded, the calls
\* each open activation still has to make, and its return.
Measure ==
    (MaxRefs + 3) * Cardinality({p \in 1..Len(heap) : heap[p].kind # "forward"})
    + (IF pc = "done" THEN 0 ELSE SumFrames(stack))
    + (IF pc = "run" THEN 1 ELSE 0)

(***************************************************************************)
(* C1. Freezing terminates, for cyclic graphs too: every step of the pass  *)
(* brings it closer to its end and the pass never gets stuck before it;    *)
(* heap_freeze is entered at most once per heap value, a visit to a value  *)
(* already forwarded returns its forwarding target without a new           *)
(* activation; and the pass ends with success when no payload reachable    *)
(* from the root declines to freeze.                                       *)
(***************************************************************************)
C1_EnteredOnce == \A p \in Addrs : entered[p] <= 1
C1_NeverStuck == InPass => ENABLED FreezeNext
C1_Succeeds ==
    (Done /\ \A p \in Reach(orig, Root) : orig[p].kind # "unfreezable") => result.tag = "ok"
C1_Progress == InPass => (Measure' < Measure /\ Measure' >= 0)
C1_SecondVisit ==
    ChildIs("forward") =>
        /\ stack' = Resume(stack, heap[Child.a].to)
        /\ entered' = entered
        /\ Len(frozen') = Len(frozen)
C1_FreezeTerminates ==
    /\ [](C1_EnteredOnce /\ C1_NeverStuck /\ C1_Succeeds)
    /\ [][C1_Progress /\ C1_SecondVisit]_vars

\* A list and a tuple containing each other were frozen with success.
C1_Witness ==
    /\ DoneOk
    /\ \E l \in Live, t \in Live :
          Cycle(l, t) /\ entered[l] = 1 /\ entered[t] = 1 /\ Root = Mut(t)

FrozenOf(k) ==
    CASE k = "tuple" -> "FrozenTuple"
      [] k = "list" -> "FrozenList"
      [] k = "simple" -> "simple"
      [] OTHER -> FrozenKind(k)

\* The elements of a record of the original heap.
Elements(p) == IF orig[p].kind = "list" THEN ListContent(orig, p) ELSE orig[p].content

\* The frozen image of the heap value p is the frozen form of p.
ImageMatches(p) ==
    LET fv == heap[p].to
        elems == Elements(p)
    IN  IF orig[p].kind = "list" /\ elems = <<>>
        THEN fv = VALUE_EMPTY_FROZEN_LIST
        ELSE /\ fv.tag = "frozen"
             /\ fv.a \in 1..Len(frozen)
             /\ frozen[fv.a].kind = FrozenOf(orig[p].kind)
             /\ frozen[fv.a].len = Len(elems)
             /\ Len(frozen[fv.a].extra) = Len(elems)
             /\ \A i \in 1..Len(elems) : frozen[fv.a].extra[i] = Img(elems[i])

(***************************************************************************)
(* C2. After a successful freeze the frozen graph is isomorphic to the     *)
(* mutable graph reachable from the root: every reachable heap value is    *)
(* forwarded to one frozen image of its own, nothing else was allocated,   *)
(* and the image has the length of its source and the images of the        *)
(* source's elements, position by position.                                *)
(***************************************************************************)
C2_FrozenGraphIsomorphic ==
    DoneOk =>
        LET R == Reach(orig, Root)
        IN  /\ result.val = Img(Root)
            /\ \A p \in R : heap[p].kind = "forward" /\ ImageMatches(p)
            /\ \A p \in R, q \in R :
                  (heap[p].to = heap[q].to /\ heap[p].to.tag = "frozen") => p = q
            /\ Len(frozen) = Cardinality({p \in R : heap[p].to.tag = "frozen"})

\* A tuple holding the same heap value twice was frozen.
C2_Witness ==
    /\ DoneOk
    /\ \E t \in Live :
          /\ Root = Mut(t)
          /\ orig[t].kind = "tuple"
          /\ Len(orig[t].content) = 2
          /\ orig[t].content[1] = orig[t].content[2]
          /\ orig[t].content[1].tag = "mut"
          /\ frozen[heap[t].to.a].extra[1].tag = "frozen"

(***************************************************************************)
(* C3. While a tuple, a non-empty list or a Complex payload is being       *)
(* frozen (from before the freeze of its first sub-value starts), its old  *)
(* location holds the forwarding record to the destination reserved for    *)
(* it.                                                                     *)
(***************************************************************************)
C3_ForwardedBeforeSubValues ==
    InPass =>
        \A j \in 2..Len(stack) :
            /\ heap[stack[j].a].kind = "forward"
            /\ heap[stack[j].a].to = stack[j].fv
            /\ stack[j].fv.tag = "frozen"
            /\ stack[j].fv.a \in 1..Len(frozen)

\* A list inside a tuple is about to freeze its first element, which is the
\* tuple again.
C3_Witness ==
    /\ pc = "run"
    /\ Len(stack) = 3
    /\ stack[2].kind = "tuple"
    /\ stack[3].kind = "list"
    /\ stack[3].i = 1
    /\ stack[3].content[1] = Mut(stack[2].a)

(***************************************************************************)
(* C4. While heap_copy of a tuple, an array, a list or a Complex payload   *)
(* traces its nested references, the old location holds the forwarding     *)
(* record to the destination reserved for it in the target arena, so a     *)
(* nested reference back to a value being traced resolves to that          *)
(* destination; heap_copy is entered at most once per value, every step    *)
(* of a trace brings it closer to its end, the trace never gets stuck      *)
(* before it, and at its end every copy is filled and refers to no value   *)
(* of the vacated arena.                                                   *)
(***************************************************************************)
C4_Forwarded ==
    InPass =>
        \A j \in 2..Len(stack) :
            /\ stack[j].fv.tag = "new"
            /\ stack[j].fv.a \in 1..Len(tospace)
            /\ heap[stack[j].a].kind = "forward"
            /\ heap[stack[j].a].to = stack[j].fv
C4_BackReference ==
    InPass =>
        \A j \in 1..Len(stack), k \in 2..Len(stack) :
            (/\ stack[j].i <= Len(stack[j].content)
             /\ stack[j].content[stack[j].i] = Mut(stack[k].a))
                => Img(stack[j].content[stack[j].i]) = stack[k].fv
C4_EnteredOnce == \A p \in Addrs : entered[p] <= 1
C4_NeverStuck == InPass => ENABLED TraceNext
C4_Copied ==
    Done =>
        /\ result.tag = "ok"
        /\ result.val = Img(Root)
        /\ \A i \in 1..Len(tospace) :
              /\ tospace[i].kind # "BlackHole"
              /\ \A v \in Range(tospace[i].content) : v.tag \notin {"mut", "uninit", "none"}
C4_Progress == InPass => (Measure' < Measure /\ Measure' >= 0)
C4_TraceForwardsFirst ==
    /\ [](C4_Forwarded /\ C4_BackReference /\ C4_EnteredOnce /\ C4_NeverStuck /\ C4_Copied)
    /\ [][C4_Progress]_vars

\* A list and a tuple containing each other were traced: the copy of the
\* tuple holds the copy of the list, whose array holds the copy of the tuple.
C4_Witness ==
    /\ Done
    /\ tospace # <<>>
    /\ \E l \in Live, t \in Live :
          /\ Cycle(l, t)
          /\ Root = Mut(t)
          /\ entered[l] = 1 /\ entered[t] = 1
          /\ LET tc == tospace[heap[t].to.a]
                 lc == tospace[heap[l].to.a]
                 ac == tospace[lc.content[1].a]
             IN  /\ tc.kind = "tuple" /\ lc.kind = "list" /\ ac.kind = "array"
                 /\ heap[l].to \in Range(tc.content)
                 /\ heap[t].to \in Range(ac.content)

(***************************************************************************)
(* C5. When a freeze fails, every value of the mutable heap is as it was   *)
(* before the freeze: none is left as a forwarding record.                 *)
(***************************************************************************)
C5_HeapIntactAfterFailure == DoneErr => heap = orig

(***************************************************************************)
(* C6. An error of a freeze hook reaches the caller: every activation that *)
(* was open when the hook failed returns the error, none of them returns a *)
(* frozen value, and the pass as a whole returns the error; a pass returns *)
(* a frozen value only if no hook failed.                                  *)
(***************************************************************************)
C6_AllOrNothing ==
    /\ pc = "unwind" => \A j \in 2..Len(stack) : returned[stack[j].a] = "none"
    /\ Done =>
          IF errStack # {}
          THEN result = Err /\ \A p \in errStack : returned[p] = "err"
          ELSE result.tag = "ok" /\ \A p \in Live : returned[p] # "err"

\* A hook failed two levels below a tuple, and the pass is over.
C6_Witness ==
    /\ DoneErr
    /\ Cardinality(errStack) = 3
    /\ \E p \in errStack : orig[p].kind = "tuple"
    /\ \E p \in errStack : orig[p].kind = "partial"

\* The records of the frozen arena reachable from the frozen value v.
RECURSIVE FrozenReachFrom(_)
FrozenReachFrom(S) ==
    LET T == S \cup {v.a : v \in {w \in UNION {Range(frozen[i].extra) : i \in S} :
                                     w.tag = "frozen"}}
    IN  IF T = S THEN S ELSE FrozenReachFrom(T)
FrozenReach(v) == IF v.tag = "frozen" THEN FrozenReachFrom({v.a}) ELSE {}

(***************************************************************************)
(* C7. After a successful freeze every record reachable from the frozen    *)
(* root is initialized, header and cells, and refers only to frozen,       *)
(* static or immediate values.                                             *)
(***************************************************************************)
C7_FullyFrozen ==
    DoneOk =>
        /\ result.val.tag \notin {"mut", "uninit", "none"}
        /\ \A i \in FrozenReach(result.val) :
              /\ frozen[i].kind # "BlackHole"
              /\ Len(frozen[i].extra) = frozen[i].len
              /\ \A v \in Range(frozen[i].extra) : v.tag \notin {"mut", "uninit", "none"}

\* The frozen graph holds a cycle: the destination of the outer value was
\* handed out before it was filled.
C7_Witness ==
    /\ DoneOk
    /\ \E i \in 1..Len(frozen), j \in 1..Len(frozen) :
          /\ i # j
          /\ Frz(j) \in Range(frozen[i].extra)
          /\ Frz(i) \in Range(frozen[j].extra)
          /\ frozen[i].kind = "FrozenTuple"
          /\ i \in FrozenReach(result.val)

(***************************************************************************)
(* C8. After a successful freeze frozen_defs holds every frozen value of   *)
(* type FrozenDef exactly once, and nothing else.                          *)
(***************************************************************************)
C8_FrozenDefsExact ==
    DoneOk =>
        /\ \A i \in 1..Len(frozen) :
              frozen[i].kind = "FrozenDef" =>
                  Cardinality({k \in 1..Len(frozen_defs) : frozen_defs[k] = Frz(i)}) = 1
        /\ \A k \in 1..Len(frozen_defs) :
              /\ frozen_defs[k].tag = "frozen"
              /\ frozen[frozen_defs[k].a].kind = "FrozenDef"

\* A function referenced twice by the root tuple was frozen.
C8_Witness ==
    /\ DoneOk
    /\ Len(frozen_defs) = 1
    /\ \E t \in Live, d \in Live :
          /\ Root = Mut(t)
          /\ orig[t].kind = "tuple"
          /\ orig[t].content = <<Mut(d), Mut(d)>>
          /\ orig[d].kind = "def"

(***************************************************************************)
(* C9. A list without content freezes to the static empty frozen list and  *)
(* reserves nothing; a list with content is forwarded to a frozen list of  *)
(* its own, of the same length.                                            *)
(***************************************************************************)
C9_EmptyListStatic ==
    /\ \A p \in Live :
          (orig[p].kind = "list" /\ heap[p].kind = "forward") =>
              IF ListContent(orig, p) = <<>>
              THEN heap[p].to = VALUE_EMPTY_FROZEN_LIST
              ELSE /\ heap[p].to.tag = "frozen"
                   /\ frozen[heap[p].to.a].kind = "FrozenList"
                   /\ frozen[heap[p].to.a].len = Len(ListContent(orig, p))
                   /\ Len(frozen[heap[p].to.a].extra) = Len(ListContent(orig, p))
                   /\ \A q \in Live \ {p} : heap[q].to # heap[p].to
    /\ Len(frozen) = Cardinality({p \in Live : heap[p].to.tag = "frozen"})

\* Two different empty lists were frozen.
C9_Witness ==
    \E p \in Live, q \in Live :
        /\ p # q
        /\ orig[p].kind = "list" /\ orig[q].kind = "list"
        /\ heap[p].kind = "forward" /\ heap[q].kind = "forward"
        /\ heap[p].to = VALUE_EMPTY_FROZEN_LIST
        /\ heap[q].to = VALUE_EMPTY_FROZEN_LIST
        /\ Len(frozen) = 1

(***************************************************************************)
(* Vocabulary of the Array properties.                                     *)
(***************************************************************************)
HasArray == array # NoValue
LiveIters == {k \in 1..Len(iters) : iters[k].live}
Remaining(a) == a.capacity - a.len

\* The call made in this step.
Called(ops) == HasArray /\ call' # call /\ call'.op \in ops
CalledOk(ops) == Called(ops) /\ call'.panic = "none"

\* The number of cells a call needs free.
Needed(c, a) ==
    CASE c.op \in {"push", "insert"} -> 1
      [] c.op \in {"extend", "extend_from_slice"} -> Len(c.args)
      [] c.op = "double" -> a.len
      [] OTHER -> 0

\* The index a call is given is one it may be given.
IndexOk(c, a) ==
    CASE c.op = "insert" -> c.args[1] <= a.len
      [] c.op \in {"set_at", "remove"} -> c.args[1] < a.len
      [] OTHER -> TRUE

Growing == {"push", "insert", "extend", "extend_from_slice", "double"}
Mutating == Growing \cup {"set_at", "remove", "clear"}

(***************************************************************************)
(* C11. As long as no operation has aborted, len <= capacity and           *)
(* content() has len elements, and no operation changes the capacity the   *)
(* array was made with.                                                    *)
(***************************************************************************)
C11_LenWithinCapacity ==
    (HasArray /\ Alive) =>
        /\ Array_len(array) <= Array_capacity(array)
        /\ Len(Array_content(array)) = Array_len(array)
        /\ Len(array.cells) = Array_capacity(array)
C11_CapacityFixed == HasArray => Array_capacity(array') = Array_capacity(array)
C11_CapacityInvariant == []C11_LenWithinCapacity /\ [][C11_CapacityFixed]_vars

\* An array that was doubled is full.
C11_Witness ==
    /\ HasArray
    /\ call.op = "double" /\ call.panic = "none"
    /\ array.len = 2 /\ array.len = array.capacity

(***************************************************************************)
(* C12. push, insert, extend, extend_from_slice and double called with     *)
(* less remaining capacity than they need abort by a failed assertion:     *)
(* nothing is returned and the capacity is as before.                      *)
(***************************************************************************)
C12_Step ==
    (Called(Growing) /\ Remaining(array) < Needed(call', array)) =>
        /\ call'.panic # "none"
        /\ call'.ret = NoValue
        /\ array'.capacity = array.capacity
        /\ array'.len <= array'.capacity
C12_OverCapacityAborts == [][C12_Step]_vars

\* extend was given more than fits, with no iterator in the way.
C12_Witness ==
    /\ HasArray
    /\ call.op = "extend"
    /\ call.panic = "remaining_capacity"
    /\ array.capacity > 0

(***************************************************************************)
(* C13, as stated. The iterator count of every array is the number of its  *)
(* iterators that were made and not yet dropped.                           *)
(***************************************************************************)
C13_CountsEveryIterator == HasArray => array.iter_count = Cardinality(LiveIters)

(***************************************************************************)
(* C13, as the code has it. On an array with capacity, iter() raises the   *)
(* iterator count by one and the drop of an iterator lowers it by one, so  *)
(* the count is the number of iterators made and not yet dropped, is 0     *)
(* when all are dropped and never goes below 0.  On the array without      *)
(* capacity (the static empty array) neither touches the count: it stays   *)
(* 0 whatever the number of iterators alive.                               *)
(***************************************************************************)
C13_Count ==
    HasArray =>
        /\ array.iter_count >= 0
        /\ array.iter_count =
              IF is_statically_allocated(array) THEN 0 ELSE Cardinality(LiveIters)
C13_Step ==
    /\ Called({"iter"}) =>
          array'.iter_count = array.iter_count + (IF array.capacity = 0 THEN 0 ELSE 1)
    /\ Called({"drop"}) =>
          /\ call'.panic = "none"
          /\ array'.iter_count = array.iter_count - (IF array.capacity = 0 THEN 0 ELSE 1)
C13_IterCountOfArraysWithCapacity == []C13_Count /\ [][C13_Step]_vars

\* Two iterators were made over an array with capacity and one was dropped.
C13_Witness ==
    /\ HasArray
    /\ array.capacity > 0
    /\ Len(iters) = 2
    /\ Cardinality(LiveIters) = 1
    /\ array.iter_count = 1
    /\ call.op = "drop"

(***************************************************************************)
(* C14, as stated. With debug assertions, every mutating operation called  *)
(* while an iterator over the array is alive aborts.                       *)
(***************************************************************************)
C14_GuardStep == (Called(Mutating) /\ debug /\ LiveIters # {}) => call'.panic # "none"
C14_EveryMutationGuarded == [][C14_GuardStep]_vars

(***************************************************************************)
(* C14, as the code has it. With debug assertions and an iterator alive    *)
(* over an array with capacity, push, insert, extend_from_slice, double,   *)
(* set_at, remove, clear, and extend of at least one item, abort on the    *)
(* iterator-count assertion and leave the array as it was; extend of no    *)
(* item returns without an assertion.  The array without capacity never    *)
(* counts its iterators, so there only the capacity and index assertions   *)
(* stop an operation.  With no iterator alive an operation succeeds when   *)
(* its capacity and index preconditions hold.                              *)
(***************************************************************************)
C14_Step ==
    /\ (Called(Mutating) /\ debug /\ LiveIters # {} /\ array.capacity > 0) =>
          IF call'.op = "extend" /\ call'.args = <<>>
          THEN call'.panic = "none"
          ELSE call'.panic = "iter_count" /\ array' = array
    /\ (Called(Mutating) /\ debug /\ array.capacity = 0) => call'.panic # "iter_count"
    /\ (Called(Mutating) /\ LiveIters = {}
          /\ Remaining(array) >= Needed(call', array) /\ IndexOk(call', array)) =>
          call'.panic = "none"
C14_IteratorGuard == [][C14_Step]_vars

\* remove was stopped by the iterator-count assertion.
C14_Witness ==
    /\ HasArray
    /\ debug
    /\ LiveIters # {}
    /\ call.op = "remove"
    /\ call.panic = "iter_count"
    /\ call.args[1] < array.len

(***************************************************************************)
(* C15. insert(i, v) with i <= len and a free cell puts v at index i and   *)
(* moves the elements from i on up by one; push(v) is insert(len, v), so   *)
(* pushing v1..vk onto an empty array with room for them gives             *)
(* [v1, ..., vk]; insert with i > len aborts.                              *)
(***************************************************************************)
Inserted(old, i, v) == SubSeq(old, 1, i) \o <<v>> \o SubSeq(old, i + 1, Len(old))
C15_InsertStep ==
    /\ CalledOk({"insert"}) =>
          /\ Array_content(array') =
                Inserted(Array_content(array), call'.args[1], call'.args[2])
          /\ array'.len = array.len + 1
    /\ CalledOk({"push"}) =>
          Array_content(array') = Append(Array_content(array), call'.args[1])
    /\ (Called({"insert"}) /\ call'.args[1] > array.len) => call'.panic # "none"
C15_PushIsInsertAtLen ==
    HasArray =>
        /\ \A v \in ArrayVals, dbg \in BOOLEAN :
              push(array, dbg, v) = insert(array, dbg, array.len, v)
        /\ \A items \in ArrayItems :
              Array_content(extend(Array_new(0, Len(items)), debug, items).array) = items
C15_InsertShifts == []C15_PushIsInsertAtLen /\ [][C15_InsertStep]_vars

\* An element was inserted in front of two others.
C15_Witness ==
    /\ HasArray
    /\ call.op = "insert" /\ call.panic = "none"
    /\ call.args[1] = 0
    /\ array.len = 2
    /\ Array_content(array)[1] # Array_content(array)[2]

(***************************************************************************)
(* Properties of the module slots.                                         *)
(***************************************************************************)

\* The call on the mutable slot table made in this step.
SlotsCalled(ops) == HasSlots /\ call' # call /\ call'.op \in ops
Max(a, b) == IF a >= b THEN a ELSE b
Assigned(s) == {i \in 1..Len(s) : ~is_unassigned(s[i])}

\* What ensure_slots(n) has to leave behind of the table old.
Ensured(old, new, n) ==
    /\ Len(new) = Max(Len(old), n)
    /\ \A i \in 1..Len(old) : new[i] = old[i]
    /\ \A i \in (Len(old) + 1)..Len(new) : new[i] = Unassigned
    /\ Len(old) >= n => new = old

C16_Step ==
    /\ SlotsCalled({"ensure_slots"}) /\ ~borrow.mut =>
          /\ call'.panic = "none"
          /\ Ensured(slots, slots', call'.args[1])
          /\ ensure_slots(slots', call'.args[1]).slots = slots'
    /\ SlotsCalled({"ensure_slot"}) /\ ~borrow.mut =>
          /\ call'.panic = "none"
          /\ Ensured(slots, slots', call'.args[1] + 1)
          /\ slots' = ensure_slots(slots, call'.args[1] + 1).slots
    /\ SlotsCalled({"ensure_slots", "ensure_slot"}) /\ borrow.mut =>
          /\ call'.panic = "already borrowed"
          /\ slots' = slots

\* C16: ensure_slots(n) leaves a table of length max(old length, n) that
\* keeps every entry it had at its index and holds the unassigned sentinel at
\* the new indices; with n entries already there it changes nothing, so a
\* second ensure_slots(n) changes nothing; ensure_slot(s) does what
\* ensure_slots(s + 1) does.  (While a RefMut of the table is alive the
\* call does not return: the borrow panics and the table is as it was.)
C16_EnsureSlotsGrowsOnly == [][C16_Step]_vars

C16_Witness ==
    /\ HasSlots
    /\ call # NoValue /\ call.op = "ensure_slots" /\ call.args = <<MaxSlots>>
    /\ Len(slots) = MaxSlots
    /\ Assigned(slots) # {}
    /\ slots[MaxSlots] = Unassigned

\* Every slot of the table reads as the value of the most recent set_slot
\* of it, None if there was none.
C17_ReadsLastSet ==
    HasSlots =>
       \A slot \in 0..(Len(slots) - 1) :
          /\ get_slot(slots, slot).panic = "none"
          /\ get_slot(slots, slot).ret = last_set[slot]

C17_Step ==
    /\ SlotsCalled({"get_slot"}) /\ call'.args[1] < Len(slots) /\ ~borrow.mut =>
          /\ call'.panic = "none"
          /\ call'.ret = get_slot(slots, call'.args[1]).ret
          /\ ~borrow.written => call'.ret = last_set[call'.args[1]]
          /\ slots' = slots
    /\ SlotsCalled({"set_slot"}) /\ call'.panic = "none" =>
          /\ Len(slots') = Len(slots)
          /\ \A i \in 1..Len(slots) :
                i # call'.args[1] + 1 => slots'[i] = slots[i]
          /\ get_slot(slots', call'.args[1]).ret = call'.args[2]
    /\ SlotsCalled({"get_slot", "ensure_slots", "ensure_slot"}) =>
          \A slot \in 0..(Len(slots) - 1) :
             get_slot(slots', slot).ret = get_slot(slots, slot).ret

C18_Step ==
    /\ SlotsCalled({"set_slot"}) /\ is_unassigned(call'.args[2]) =>
          /\ call'.panic = "!value.is_unassigned()"
          /\ slots' = slots
    /\ SlotsCalled({"set_slot", "ensure_slots", "ensure_slot", "get_slot"}) =>
          Assigned(slots) \subseteq Assigned(slots')

\* C18: set_slot with the unassigned sentinel as the value fails on its
\* assertion and leaves the table as it was; no ensure_slots, ensure_slot,
\* set_slot or get_slot makes an assigned slot unassigned.
C18_AssignedStaysAssigned == [][C18_Step]_vars

C18_Witness ==
    /\ HasSlots
    /\ call # NoValue /\ call.op = "set_slot"
    /\ call.panic = "!value.is_unassigned()"
    /\ call.args[1] < Len(slots)
    /\ slots[call.args[1] + 1] # Unassigned

C19_Step ==
    call' # call /\ call'.op = "freeze" =>
       /\ call'.panic = "none"
       /\ HasFrozenSlots'
       /\ Len(frozen_slots') = Len(slots)
       /\ \A i \in 1..Len(slots) :
             /\ is_unassigned(frozen_slots'[i]) <=> is_unassigned(slots[i])
             /\ ~is_unassigned(slots[i]) =>
                   frozen_slots'[i] = Value_freeze(slots[i])
             /\ FrozenSlots_get_slot(frozen_slots', i - 1).ret
                   = IF get_slot(slots, i - 1).ret = NoValue
                     THEN NoValue
                     ELSE Value_freeze(get_slot(slots, i - 1).ret)

\* C19: freezing a slot table gives a frozen table of the same length whose
\* slot i is unassigned exactly when slot i of the mutable table was, and
\* otherwise holds the frozen image of the value of slot i.
C19_FreezeKeepsIndices == [][C19_Step]_vars

C19_Witness ==
    /\ HasFrozenSlots
    /\ call # NoValue /\ call.op = "freeze"
    /\ Len(frozen_slots) = MaxSlots
    /\ frozen_slots[1] = Unassigned
    /\ frozen_slots[2] = Frz(1)
    /\ frozen_slots[3] = Unassigned

(***************************************************************************)
(* Properties of the numbers.                                              *)
(***************************************************************************)

\* Numerically equal: equal as floats, every i32 being exactly a float.
NumEqual(a, b) == F64Eq(as_float(a), as_float(b))
BothNaN(a, b) ==
    /\ a.tag = "Float" /\ is_nan(a.v)
    /\ b.tag = "Float" /\ is_nan(b.v)
SameHash(x, y) == x.hash_64 = y.hash_64 /\ x.hash = y.hash

\* C20: numerically equal numbers hash equally: Int(i) and Float(i as f64)
\* for every i32 i taken, any two NaNs whatever their bits, and 0.0 and -0.0.
C20_EqualNumsHashEqual ==
    nums # <<>> =>
       /\ NumEqual(nums[1].num, nums[2].num) => SameHash(nums[1], nums[2])
       /\ BothNaN(nums[1].num, nums[2].num) => SameHash(nums[1], nums[2])
       /\ nums[1].num.tag = "Int" =>
             SameHash(nums[1], Hashed(Num_Float(I32AsF64(nums[1].num.v))))

C20_Witness ==
    /\ nums # <<>>
    /\ nums[1].num = Num_Int(-42)
    /\ nums[2].num = Num_Float(F64(1, ExpBias + 5, MantOfTop30(5 * 2^26)))
    /\ nums[1].hash_64 = <<Limb - 1, Limb - 1, Limb - 1, Limb - 42>>
    /\ nums[2].hash_64 = nums[1].hash_64

(***************************************************************************)
(* Further properties of the Array.                                        *)
(***************************************************************************)

\* The operation of the step, for steps that may repeat the last call.
Stepped(op) == HasArray /\ call'.op = op

\* What an iterator made now yields until its first None.
RECURSIVE Drain(_, _)
Drain(a, it) ==
    LET r == ArrayIter_next(a, it)
    IN  IF r.ret = NoValue THEN <<>> ELSE <<r.ret>> \o Drain(a, r.iter)

C26_State ==
    HasArray =>
       /\ \A k \in LiveIters :
             ArrayIter_len(array, iters[k]) = Max(0, array.len - iters[k].next)
       /\ Drain(array, iter(array).ret) = Array_content(array)

C26_Step ==
    Stepped("next") =>
       LET k == call'.args[1]
           cursor == iters[k].next
       IN  /\ array' = array
           /\ call'.panic = "none"
           /\ IF cursor >= array.len
              THEN call'.ret = NoValue /\ iters'[k].next = cursor
              ELSE /\ call'.ret = Array_content(array)[cursor + 1]
                   /\ iters'[k].next = cursor + 1

\* C26: next() returns None when its cursor is at or beyond the len the
\* array has at that call, and otherwise the element at the cursor, which it
\* then moves on by one; the remaining length an iterator reports is
\* max(0, len - cursor); an iterator over an array that is not changed
\* yields content() in order, each element once.
C26_IteratorStaysInside == []C26_State /\ [][C26_Step]_vars

\* The array was shortened behind an iterator, which then returned None.
C26_Witness ==
    /\ HasArray
    /\ call.op = "next" /\ call.ret = NoValue
    /\ iters[call.args[1]].live
    /\ iters[call.args[1]].next > array.len
    /\ array.len > 0

Removed(old, i) == SubSeq(old, 1, i) \o SubSeq(old, i + 2, Len(old))

C28_Step ==
    /\ CalledOk({"remove"}) =>
          /\ call'.args[1] < array.len
          /\ call'.ret = Array_content(array)[call'.args[1] + 1]
          /\ Array_content(array') = Removed(Array_content(array), call'.args[1])
          /\ array'.len = array.len - 1
          /\ array'.capacity = array.capacity
    /\ (Called({"remove"}) /\ call'.args[1] < array.len
          /\ ~(debug /\ iter_count_is_non_zero(array))) => call'.panic = "none"
    /\ (Called({"remove"}) /\ call'.args[1] >= array.len) =>
          call'.panic # "none" /\ array' = array
    /\ CalledOk({"clear"}) =>
          /\ array'.len = 0
          /\ Array_content(array') = <<>>
          /\ array'.capacity = array.capacity

\* insert(i, v) and then remove(i) gives v back and the content as before.
C28_InsertThenRemove ==
    HasArray =>
       \A i \in 0..array.len, v \in ArrayVals :
          LET ins == insert(array, debug, i, v)
              rem == remove(ins.array, debug, i)
          IN  ins.panic = "none" =>
                 /\ rem.panic = "none"
                 /\ rem.ret = v
                 /\ Array_content(rem.array) = Array_content(array)
                 /\ rem.array.capacity = array.capacity

\* C28: remove(i) with i < len returns the element at i and leaves the
\* elements before and after it, in order, with len one less and the
\* capacity as it was; insert(i, v) followed by remove(i) returns v and
\* restores the content; remove with i >= len aborts; clear makes len 0 and
\* keeps the capacity.
C28_RemoveShifts == []C28_InsertThenRemove /\ [][C28_Step]_vars

\* The first of two different elements was removed.
C28_Witness ==
    /\ HasArray
    /\ call.op = "remove" /\ call.panic = "none"
    /\ call.args[1] = 0
    /\ array.len = 1
    /\ Array_content(array)[1] # call.ret

C29_Step ==
    /\ (Called({"extend"}) /\ Len(call'.args) > Remaining(array)
          /\ ~(debug /\ iter_count_is_non_zero(array))) =>
          /\ call'.panic = "remaining_capacity"
          /\ array'.len = array.capacity
          /\ Array_content(array') =
                Array_content(array) \o SubSeq(call'.args, 1, Remaining(array))
    /\ (Called({"extend_from_slice"}) /\ Len(call'.args) > Remaining(array)) =>
          /\ call'.panic # "none"
          /\ array' = array
    /\ CalledOk({"extend", "extend_from_slice"}) =>
          Array_content(array') = Array_content(array) \o call'.args

\* C29: extend given more items than the remaining capacity r appends the
\* first r of them, so that len is the capacity, and then aborts;
\* extend_from_slice given a slice longer than r aborts with the array as
\* it was; given items that fit, both leave content() as old ++ items.
C29_ExtendNotAtomic == [][C29_Step]_vars

\* extend aborted after it had appended one of its two items.
C29_Witness ==
    /\ HasArray
    /\ call.op = "extend" /\ call.panic = "remaining_capacity"
    /\ Len(call.args) = 2
    /\ array.len = 2 /\ array.capacity = 2
    /\ Array_content(array)[2] = call.args[1]
    /\ Array_content(array)[1] # call.args[1]

(***************************************************************************)
(* Properties of the static empty array.                                   *)
(***************************************************************************)

Shared == threads # <<>>
Aborting == {"push", "insert", "set_at", "remove"}

\* What the threads see and leave of the static.
C25_State ==
    Shared =>
       /\ array = Array_new(0, 0)
       /\ \A t \in 1..Len(threads) :
             /\ threads[t].pc = "run" => threads[t].seen = Array_new(0, 0)
             /\ (threads[t].pc = "idle" /\ threads[t].op = "len") =>
                   threads[t].ret = Imm(0)
             /\ (threads[t].pc = "idle" /\ threads[t].op = "iter_count_is_non_zero") =>
                   threads[t].ret = Imm(0)
             /\ (threads[t].pc = "idle" /\ threads[t].op = "next") =>
                   threads[t].ret = NoValue

\* How the calls on the static end.
C25_Step ==
    Shared =>
       \A t \in 1..Len(threads) :
          (threads[t].pc = "run" /\ threads'[t].pc # "run") =>
             LET op == threads[t].op
                 args == threads[t].args
             IN  /\ op \in Aborting => threads'[t].pc = "panicked"
                 /\ (op \in {"extend", "extend_from_slice"} /\ args # <<>>) =>
                       threads'[t].pc = "panicked"
                 /\ (op \in {"iter", "drop", "next", "clear", "double", "len"}
                       \/ (op \in {"extend", "extend_from_slice"} /\ args = <<>>)) =>
                       threads'[t].pc = "idle"
                 /\ array' = array

\* C25: no operation changes the static empty array: iter() and the drop
\* of an iterator leave its iter_count 0, clear, double and
\* extend_from_slice of nothing leave its len 0, push, insert, set_at and
\* remove abort, so that whatever the interleaving of the calls of the
\* threads, each of them sees len = 0 and iter_count = 0.
C25_StaticNeverChanges == []C25_State /\ [][C25_Step]_vars

\* One thread is inside double, the other cleared and holds an iterator.
C25_Witness ==
    /\ Shared
    /\ threads[1].pc = "run" /\ threads[1].op = "double"
    /\ threads[2].pc = "idle" /\ threads[2].op = "clear"
    /\ threads[2].iter # NoValue
    /\ array.iter_count = 0

(***************************************************************************)
(* Properties of the trace of an Array.                                    *)
(***************************************************************************)

\* The arrays of the vacated arena the trace went into.
TracedArrays == {p \in Live : orig[p].kind = "array" /\ entered[p] >= 1}

\* What the trace put in the place of a value: the static empty array for
\* an array without elements, the forwarding target for any other pointer.
TracedImg(v) ==
    IF v.tag # "mut" THEN v
    ELSE IF orig[v.a].kind = "array" /\ orig[v.a].content = <<>> THEN VALUE_EMPTY_ARRAY
    ELSE heap[v.a].to

C27_Copies ==
    Done =>
       \A p \in TracedArrays :
          IF orig[p].content = <<>>
          THEN /\ heap[p] = orig[p]
               /\ returned[p] = "ok"
          ELSE /\ heap[p].kind = "forward"
               /\ heap[p].to.tag = "new"
               /\ LET c == tospace[heap[p].to.a]
                      n == Len(orig[p].content)
                  IN  /\ c.kind = "array"
                      /\ Len(c.content) = n
                      /\ c.cap = n
                      /\ \A i \in 1..n : c.content[i] = TracedImg(orig[p].content[i])
                      /\ Array_new(n, n).iter_count = 0

\* heap_copy of an array without elements returns the static empty array.
C27_EmptyStep ==
    (ChildIs("array") /\ heap[Child.a].content = <<>>) =>
       /\ stack' = Resume(stack, VALUE_EMPTY_ARRAY)
       /\ tospace' = tospace

\* C27: the trace of an Array with elements makes an array in the target
\* arena that holds the traced images of the elements in their order, with
\* the same len, a capacity equal to the len and no iterator counted; the
\* trace of an Array without elements gives the static empty array,
\* whatever its capacity.
C27_TraceOfArray == []C27_Copies /\ [][C27_EmptyStep]_vars

\* An array with room to spare was traced.
C27_Witness ==
    /\ Done
    /\ \E p \in TracedArrays :
          /\ Len(orig[p].content) > 0
          /\ orig[p].cap > Len(orig[p].content)
          /\ tospace[heap[p].to.a].cap = Len(orig[p].content)

\* An array emptied by clear was traced.
C27_WitnessEmpty ==
    /\ Done
    /\ \E p \in TracedArrays : orig[p].content = <<>> /\ orig[p].cap > 0

(***************************************************************************)
(* Properties of the values behind a handle.                               *)
(***************************************************************************)
ValueCalled(ops) == call # NoValue /\ call.op \in ops
OfWrapper == call.args[1].type # "BlackHole"
OfBlackHole == call.args[1].type = "BlackHole"
IsFunction(h) == get_type(h.type) = "function"
NotHashable(r, h) ==
    /\ r.tag = "err"
    /\ r.err.error = "NotHashableValue"
    /\ r.err.types = <<get_type(h.type)>>

(***************************************************************************)
(* C21. The default write_hash succeeds exactly when the type name of the  *)
(* value is "function", and then it adds nothing to the hasher: get_hash   *)
(* of every such value is the hash of the empty hasher, so a partial and   *)
(* its frozen image have the same hash.  For any other type without a hash *)
(* of its own, write_hash and get_hash return NotHashableValue with the    *)
(* name of that type.                                                      *)
(***************************************************************************)
C21_DefaultHash ==
    /\ ValueCalled({"write_hash"}) /\ OfWrapper =>
          LET h == call.args[1]
          IN  IF IsFunction(h)
              THEN call.ret.tag = "ok" /\ call.ret.hasher = call.args[2]
              ELSE NotHashable(call.ret, h) /\ call.ret.hasher = call.args[2]
    /\ ValueCalled({"get_hash"}) /\ OfWrapper =>
          LET h == call.args[1]
          IN  IF IsFunction(h)
              THEN call.ret = ROk(finish_small(StarlarkHasher_new))
              ELSE NotHashable(call.ret, h)
    /\ ValueCalled({"freeze"}) =>
          /\ call.ret.before = ROk(finish_small(StarlarkHasher_new))
          /\ call.ret.freeze.tag = "ok" =>
                /\ call.ret.freeze.frozen.type = "FrozenPartial"
                /\ call.ret.after = call.ret.before

C21_Witness ==
    /\ ValueCalled({"freeze"})
    /\ call.args[1].type = "Partial"
    /\ call.args[1].payload.named # <<>>
    /\ call.ret.freeze.tag = "ok"
    /\ call.ret.freeze.frozen.type = "FrozenPartial"
    /\ call.ret.freeze.frozen.payload.func = Frz(1)
    /\ call.ret.after.tag = "ok"

C21_WitnessNotHashable ==
    /\ ValueCalled({"get_hash"})
    /\ call.args[1].type = "Array"
    /\ call.ret.tag = "err"

(***************************************************************************)
(* An operation a type does not support: one with no default answer that   *)
(* the type does not write itself, and the hashing of a value whose type   *)
(* is not hashable.  A typed error names the operator and the type of the  *)
(* value, and the type of the other operand when the operation has one.    *)
(***************************************************************************)
ErrorOps == DOMAIN UnaryOps \cup DOMAIN BinaryOps \cup {"is_in"}
Unsupported(ops) ==
    /\ ValueCalled(ops)
    /\ OfWrapper
    /\ call.op \notin Overrides(call.args[1].type)
UnsupportedHash ==
    /\ ValueCalled({"write_hash", "get_hash"})
    /\ OfWrapper
    /\ ~IsFunction(call.args[1])
Operator(op) ==
    IF op \in DOMAIN UnaryOps THEN UnaryOps[op]
    ELSE IF op \in DOMAIN BinaryOps THEN BinaryOps[op]
    ELSE IF op = "is_in" THEN "in"
    ELSE op
TypedError ==
    /\ call.panic = "none"
    /\ call.ret.tag = "err"
    /\ call.ret.err.op = Operator(call.op)
    /\ get_type(call.args[1].type) \in Range(call.ret.err.types)
    /\ call.op \in DOMAIN BinaryOps \cup {"is_in"} =>
          get_type(call.args[2].type) \in Range(call.ret.err.types)

(***************************************************************************)
(* C22, as stated. Every operation a payload type does not support is      *)
(* reported as a typed error carrying the type name(s) and the operator,   *)
(* as an ordinary result, and never aborts the process.                    *)
(***************************************************************************)
C22_UnsupportedIsTypedError ==
    /\ Unsupported(ErrorOps \cup {"invoke_method", "set_at"}) => TypedError
    /\ UnsupportedHash => TypedError

(***************************************************************************)
(* C22, as the code has it. Every operation a payload type does not        *)
(* support, other than invoke_method, set_at and hashing, is reported as a *)
(* typed error carrying the type name(s) and the operator, as an ordinary  *)
(* result, and never aborts the process.  The default invoke_method aborts *)
(* the process, the default set_at returns CannotMutateImmutableValue,     *)
(* which carries neither a type name nor an operator, and hashing a value  *)
(* of a type that is not hashable returns NotHashableValue, which carries  *)
(* the type name and no operator.                                          *)
(***************************************************************************)
C22_UnsupportedButThree ==
    /\ Unsupported(ErrorOps) => TypedError
    /\ UnsupportedHash =>
          /\ call.panic = "none"
          /\ NotHashable(call.ret, call.args[1])
          /\ call.ret.err.op = ""
    /\ Unsupported({"invoke_method"}) => call.panic # "none"
    /\ Unsupported({"set_at"}) =>
          /\ call.panic = "none"
          /\ call.ret.tag = "err"
          /\ call.ret.err.error = "CannotMutateImmutableValue"
          /\ call.ret.err.types = <<>>
          /\ call.ret.err.op = ""

C22_Witness ==
    /\ Unsupported({"compare"})
    /\ call.args[1].type = "Array"
    /\ call.args[2].type = "Partial"
    /\ call.ret.tag = "err"
    /\ call.ret.err.types = <<"array", "function">>

C22_WitnessAbort ==
    /\ Unsupported({"invoke_method"})
    /\ call.panic # "none"

BlackHoleReturns == {"memory_size", "is_str", "as_debug", "as_display"}

(***************************************************************************)
(* C23. Every operation on a BlackHole aborts the process, except          *)
(* memory_size, is_str and the debug and display views, which return.      *)
(***************************************************************************)
C23_BlackHoleAborts ==
    call # NoValue /\ OfBlackHole =>
       IF call.op \in BlackHoleReturns
       THEN call.panic = "none" /\ call.ret.tag = "ok"
       ELSE call.panic # "none" /\ call.ret.tag = "panic"

C23_Witness ==
    /\ ValueCalled({"get_type"})
    /\ OfBlackHole
    /\ call.panic # "none"

C23_WitnessReturns ==
    /\ ValueCalled({"memory_size"})
    /\ OfBlackHole
    /\ call.ret = ROk(V("int", 16))

(***************************************************************************)
(* C24. downcast_ref::<B>() on a handle whose payload is of type A returns *)
(* the payload exactly when A is B, and None otherwise: two types of the   *)
(* same name are told apart, and the content of the payload plays no part. *)
(***************************************************************************)
C24_DowncastByIdentity ==
    ValueCalled({"downcast_ref"}) /\ OfWrapper =>
       LET h == call.args[1]
           B == call.args[2]
       IN  /\ call.panic = "none"
           /\ IF h.type = B
              THEN call.ret.val.tag = "Some" /\ call.ret.ref = h.payload
              ELSE call.ret.val.tag = "None"

C24_Witness ==
    /\ ValueCalled({"downcast_ref"})
    /\ call.args[1].type = "Partial"
    /\ call.args[2] = "FrozenPartial"
    /\ call.ret.val.tag = "None"

C24_WitnessSome ==
    /\ ValueCalled({"downcast_ref"})
    /\ call.args[1].type = "Array"
    /\ call.args[1].payload.len = 2
    /\ call.args[2] = "Array"
    /\ call.ret.val.tag = "Some"

(***************************************************************************)
(* Properties of eval_module.                                              *)
(***************************************************************************)
\* A step in which eval_module returns what its body returned, and a step
\* in which it returns a static error.
Returning == HasEvaluator /\ AtDone("eval_module") /\ evaluator' # evaluator
StaticFailing ==
    /\ HasEvaluator
    /\ call' # call
    /\ call'.op = "eval_module"
    /\ call'.ret.err = StaticError

(***************************************************************************)
(* C30. Once the static scope check has passed, eval_module puts the       *)
(* evaluator back whether the body returns a value or an error: the call   *)
(* stack is as it was at the call, the one frame pushed being popped, and  *)
(* def_info is the one of before the call.  A static scope error is        *)
(* returned before the slot table is grown and before anything is pushed.  *)
(***************************************************************************)
C30_Step ==
    /\ Returning =>
          LET entry == TopAct(evaluator).entry
          IN  /\ call'.ret.tag = IF TopAct(evaluator).res = "ok" THEN "ok" ELSE "err"
              /\ evaluator'.call_stack = entry.call_stack
              /\ Len(evaluator'.call_stack) = Len(evaluator.call_stack) - 1
              /\ evaluator'.def_info = entry.def_info
    /\ StaticFailing =>
          /\ slots' = slots
          /\ evaluator'.call_stack = evaluator.call_stack
          /\ evaluator'.def_info = evaluator.def_info

C30_EvalModuleRestores == [][C30_Step]_vars

\* A nested eval_module whose body failed has returned: the evaluator is as
\* the function that called it had it.
C30_Witness ==
    /\ HasEvaluator
    /\ call # NoValue
    /\ call.op = "eval_module"
    /\ call.ret.err = BodyError
    /\ call.args[1].def_info # 0
    /\ evaluator.call_stack = call.args[1].call_stack
    /\ evaluator.def_info = call.args[1].def_info
    /\ Len(evaluator.call_stack) = 2

C30_WitnessStatic ==
    /\ HasEvaluator
    /\ call # NoValue
    /\ call.op = "eval_module"
    /\ call.ret.err = StaticError
    /\ Len(slots) = 2
    /\ Len(evaluator.call_stack) = 2

====
